---- MODULE Spec2Model ----
(***************************************************************************)
(* A model of the think-tank debate orchestrator (think_tank/runner.py),   *)
(* the agent boundary it calls (think_tank/agent.py), and the parts of the *)
(* memory manager (think_tank/memory.py) that a run touches.               *)
(*                                                                         *)
(* Strings are modelled structurally: a formatted string is the tuple of   *)
(* its parts, a formatted number is its sequence of decimal digits, and a  *)
(* free text is a record [body, len] whose prefix s[:n] keeps the body and *)
(* cuts len to min(len, n).                                                *)
(***************************************************************************)
EXTENDS Integers, Sequences, FiniteSets, TLC

VARIABLES
    self,            \* the DebateRunner: spec, panel, use_memory, agents
    pc,              \* position of run() in its code
    rnd_idx,         \* index in self.spec.rounds of the round being run
    agent_idx,       \* index in rnd.agents of the turn being run
    move_counter,    \* runner.py:110
    memory_context,  \* runner.py:95
    state,           \* the DebateState being built
    invocation,      \* arguments of the capability call in progress, and
                     \* what _build_user_prompt shows of prior_moves
    calls,           \* history: one record per capability invocation
    move_files,      \* per-move documents of the output directory, by name
    out_files,       \* debate_state.json, report.md, cost.json
    bootstrap_file,  \* memory/_bootstrap.json (read-only seed lessons)
    lessons_file,    \* memory/lessons.json (learned lessons)
    performance_file,\* memory/performance.json
    result,          \* <<>> while running, then what run() returned or raised
    warned,          \* the exception caught at runner.py:215, if any
    forecasts_file,  \* memory/forecasts.json
    mem_call         \* the last MemoryManager call made on its own: its
                     \* arguments, the files before it and what it raised

vars == <<self, pc, rnd_idx, agent_idx, move_counter, memory_context, state,
          invocation, calls, move_files, out_files, bootstrap_file,
          lessons_file, performance_file, result, warned,
          forecasts_file, mem_call>>

(***************************************************************************)
(* Bounds of the model.                                                    *)
(***************************************************************************)
MaxTok == 1       \* token counts reported by the capability: 0..MaxTok+1
MaxPrior == 8     \* longest prior_moves list given to _build_user_prompt

(***************************************************************************)
(* Program constants.                                                      *)
(***************************************************************************)
WINDOW == 6             \* agent.py:118
MOVE_ID_WIDTH == 3      \* runner.py:124   f"M{move_counter:03d}"
FILE_NO_WIDTH == 2      \* runner.py:144   f"move_{move_counter:02d}_..."
FALLBACK_CHARS == 3000  \* agent.py:226
CONTENT_CHARS == 2000   \* agent.py:213
CONTEXT_LESSONS == 20   \* memory.py:56

Min(a, b) == IF a <= b THEN a ELSE b

(***************************************************************************)
(* Python's xs[-n:] on a list.                                             *)
(***************************************************************************)
\* xs[-n:] : for n = 0 the slice is xs[0:], the whole list
LastN(xs, n) ==
    IF n = 0 \/ n >= Len(xs) THEN xs
    ELSE SubSeq(xs, Len(xs) - n + 1, Len(xs))

(***************************************************************************)
(* Number formatting: f"{n:0Wd}" is the decimal digits of n, left-padded   *)
(* with zeros to at least W digits (wider numbers are not cut).            *)
(***************************************************************************)
RECURSIVE Digits(_)
Digits(n) == IF n < 10 THEN <<n>> ELSE Append(Digits(n \div 10), n % 10)

RECURSIVE ZeroPad(_, _)
ZeroPad(ds, w) == IF Len(ds) >= w THEN ds ELSE ZeroPad(<<0>> \o ds, w)

FormatMoveId(counter) ==
    [prefix |-> "M", digits |-> ZeroPad(Digits(counter), MOVE_ID_WIDTH)]

MoveFileName(counter, number, agent_id) ==
    <<ZeroPad(Digits(counter), FILE_NO_WIDTH), number, agent_id>>

(***************************************************************************)
(* Experts and agents (schemas.py Expert, runner.py __init__).             *)
(***************************************************************************)
Expert(id, name, title) == [id |-> id, name |-> name, title |-> title]

display_title(e) == <<e.name, " (", e.title, ")">>

SYNTHESIZER_EXPERT == Expert("synthesizer", "Synthesis Engine", "Debate Synthesizer")

\* self.agents: one agent per panel expert (a later expert with the same id
\* replaces an earlier one), then the key "synthesizer" is overwritten
InitAgents(experts) ==
    LET ids == {experts[k].id : k \in 1..Len(experts)}
        last(id) == CHOOSE k \in 1..Len(experts) :
                       /\ experts[k].id = id
                       /\ \A j \in (k+1)..Len(experts) : experts[j].id # id
    IN [id \in ids \cup {"synthesizer"} |->
          IF id = "synthesizer"
          THEN [expert |-> SYNTHESIZER_EXPERT, is_synthesizer |-> TRUE]
          ELSE [expert |-> experts[last(id)], is_synthesizer |-> FALSE]]

RoundSpec(number, agents) == [number |-> number, agents |-> agents]

(***************************************************************************)
(* Values.  A Python str is [type |-> "str", parts, len]; a value of       *)
(* another JSON type that ends up where a str is expected keeps its type.  *)
(***************************************************************************)
Str(parts, len) == [type |-> "str", parts |-> parts, len |-> len]
NonStr(type) == [type |-> type, parts |-> <<>>, len |-> 0]

\* s[:n] ; slicing an int, float, bool, None or dict raises
Sliceable(v) == v.type \in {"str", "list"}
StrPrefix(v, n) == [v EXCEPT !.len = Min(v.len, n)]

\* dict.get(key, default) on a JSON object modelled as a record
Get(d, key, default) == IF key \in DOMAIN d THEN d[key] ELSE default

Exc(type) == [type |-> type]
\* f"Agent error: {e!s}"
AgentErrorContent(e) == Str(<<"Agent error: ", e.type>>, 13 + Len(e.type))

(***************************************************************************)
(* Move (schemas.py:59-72).  The timestamp default is the wall clock and   *)
(* is read by nothing in the model; it is kept as one opaque value.        *)
(***************************************************************************)
Move(move_id, agent_id, agent_title, round, move_type, content, claims, targets) ==
    [move_id |-> move_id, agent_id |-> agent_id, agent_title |-> agent_title,
     round |-> round, move_type |-> move_type, content |-> content,
     claims |-> claims, targets |-> targets, timestamp |-> "now",
     input_tokens |-> 0, output_tokens |-> 0]

\* Evidence and Claim (schemas.py:32-54); a Claim made of id, text and
\* confidence has the defaults of the other fields
Evidence(source, quote) == [source |-> source, quote |-> quote]
Evidence_to_dict(e) == [source |-> e.source, quote |-> e.quote]

Claim(id, text, confidence) ==
    [id |-> id, text |-> text, confidence |-> confidence, evidence |-> <<>>,
     assumptions |-> <<>>, stance |-> "neutral"]

\* Move.to_dict: asdict(self) with the claims converted one by one
Claim_to_dict(c) ==
    [id |-> c.id, text |-> c.text, confidence |-> c.confidence,
     evidence |-> [k \in 1..Len(c.evidence) |-> Evidence_to_dict(c.evidence[k])],
     assumptions |-> c.assumptions, stance |-> c.stance]
Move_to_dict(m) ==
    [move_id |-> m.move_id, agent_id |-> m.agent_id,
     agent_title |-> m.agent_title, round |-> m.round,
     move_type |-> m.move_type, content |-> m.content,
     claims |-> [k \in 1..Len(m.claims) |-> Claim_to_dict(m.claims[k])],
     targets |-> m.targets, timestamp |-> m.timestamp,
     input_tokens |-> m.input_tokens, output_tokens |-> m.output_tokens]

\* mutant of Claim_from_dict: the evidence of a claim is not read back
Claim_from_dict_NoEvidence(c) ==
    [id |-> Get(c, "id", ""), text |-> Get(c, "text", ""),
     confidence |-> Get(c, "confidence", 7),
     evidence |-> <<>>,
     assumptions |-> Get(c, "assumptions", <<>>),
     stance |-> Get(c, "stance", "neutral")]

\* Move.from_dict (schemas.py:79-104): every field by d.get with a default
\* (0.7, in tenths, for a confidence), the evidence rebuilt by Evidence(**e)
Claim_from_dict(c) ==
    [id |-> Get(c, "id", ""), text |-> Get(c, "text", ""),
     confidence |-> Get(c, "confidence", 7),
     evidence |-> [k \in 1..Len(Get(c, "evidence", <<>>)) |->
                      Evidence(Get(c, "evidence", <<>>)[k].source,
                               Get(Get(c, "evidence", <<>>)[k], "quote", ""))],
     assumptions |-> Get(c, "assumptions", <<>>),
     stance |-> Get(c, "stance", "neutral")]

Move_from_dict(d) ==
    [move_id |-> Get(d, "move_id", ""), agent_id |-> Get(d, "agent_id", ""),
     agent_title |-> Get(d, "agent_title", ""), round |-> Get(d, "round", 0),
     move_type |-> Get(d, "move_type", "claim"),
     content |-> Get(d, "content", ""),
     claims |-> [k \in 1..Len(Get(d, "claims", <<>>)) |->
                    Claim_from_dict(Get(d, "claims", <<>>)[k])],
     targets |-> Get(d, "targets", <<>>),
     timestamp |-> Get(d, "timestamp", ""),
     input_tokens |-> Get(d, "input_tokens", 0),
     output_tokens |-> Get(d, "output_tokens", 0)]

(***************************************************************************)
(* DebateAgent._build_user_prompt (agent.py:115-128): the prior moves the  *)
(* prompt shows.                                                           *)
(***************************************************************************)
\* mutant of ShownMoves: the slice keeps the first `limit` moves, not the last
ShownMoves_FirstN(prior_moves, is_synthesizer) ==
    IF prior_moves = <<>> THEN <<>>
    ELSE LET limit == IF is_synthesizer THEN Len(prior_moves) ELSE WINDOW
         IN SubSeq(prior_moves, 1, Min(limit, Len(prior_moves)))

ShownMoves(prior_moves, is_synthesizer) ==
    IF prior_moves = <<>> THEN <<>>
    ELSE LET limit == IF is_synthesizer THEN Len(prior_moves) ELSE WINDOW
         IN LastN(prior_moves, limit)

(***************************************************************************)
(* DebateAgent._parse_response (agent.py:165-227).                         *)
(* A model text is [body, len, json] where json is what the extraction of  *)
(* lines 180-190 meets:                                                    *)
(*   [kind |-> "unterminated"]  an opening fence without a closing one:    *)
(*                              text.index raises ValueError               *)
(*   [kind |-> "invalid"]       json.loads raises JSONDecodeError          *)
(*   [kind |-> "array"]         json.loads returns a list                  *)
(*   [kind |-> "object", data |-> d]   json.loads returns the dict d       *)
(* The result is [raised |-> FALSE, move |-> m] or [raised |-> TRUE,       *)
(* exc |-> e] for an exception that leaves _parse_response.                *)
(***************************************************************************)
Returned(m) == [raised |-> FALSE, move |-> m, exc |-> Exc("")]
Raised(e, m) == [raised |-> TRUE, move |-> m, exc |-> e]

TextContent(text) == Str(<<text.body>>, text.len)

FallbackMove(agent, text, move_id, round_num) ==
    Move(move_id, agent.expert.id, display_title(agent.expert), round_num,
         "claim", StrPrefix(TextContent(text), FALLBACK_CHARS), <<>>, <<>>)

\* lines 192-205: the claims of the payload, converted in list order.  A raw
\* confidence is [type, value]: a number (in tenths), JSON null (float()
\* raises TypeError) or a non-numeric string (float() raises ValueError).
DEFAULT_CONFIDENCE == 7      \* agent.py:201, 0.7 in tenths

RawConfidence(c) == Get(c, "confidence", [type |-> "num", value |-> DEFAULT_CONFIDENCE])

ClaimConfidenceError(raw_claims) ==
    LET bad == {k \in 1..Len(raw_claims) : RawConfidence(raw_claims[k]).type # "num"}
    IN IF bad = {} THEN ""
       ELSE LET first == CHOOSE k \in bad : \A j \in bad : k <= j
            IN IF RawConfidence(raw_claims[first]).type = "null"
               THEN "TypeError" ELSE "ValueError"

ParsedClaims(raw_claims) ==
    [k \in 1..Len(raw_claims) |->
        [Claim(Get(raw_claims[k], "id", ""),
               Get(raw_claims[k], "text", ""),
               RawConfidence(raw_claims[k]).value)
         EXCEPT !.evidence =
                    [j \in 1..Len(Get(raw_claims[k], "evidence", <<>>)) |->
                        Evidence(Get(Get(raw_claims[k], "evidence", <<>>)[j],
                                     "source", ""),
                                 Get(Get(raw_claims[k], "evidence", <<>>)[j],
                                     "quote", ""))],
                !.assumptions = Get(raw_claims[k], "assumptions", <<>>),
                !.stance = Get(raw_claims[k], "stance", "neutral")]]

\* mutant of ParsedMove: the identity of the Move is read from the payload
ParsedMove_IdentityFromPayload(agent, text, data, move_id, round_num) ==
    Move(Get(data, "move_id", move_id), Get(data, "agent_id", agent.expert.id),
         display_title(agent.expert), Get(data, "round", round_num),
         Get(data, "move_type", "claim"),
         Get(data, "content", StrPrefix(TextContent(text), CONTENT_CHARS)),
         ParsedClaims(Get(data, "claims", <<>>)),
         Get(data, "targets", <<>>))

ParsedMove(agent, text, data, move_id, round_num) ==
    Move(move_id, agent.expert.id, display_title(agent.expert), round_num,
         Get(data, "move_type", "claim"),
         Get(data, "content", StrPrefix(TextContent(text), CONTENT_CHARS)),
         ParsedClaims(Get(data, "claims", <<>>)),
         Get(data, "targets", <<>>))

parse_response(agent, text, move_id, round_num) ==
    IF agent.is_synthesizer
    THEN Returned(Move(move_id, agent.expert.id, <<"Debate Synthesizer">>,
                       round_num, "synthesize", TextContent(text), <<>>, <<>>))
    ELSE LET fallback == FallbackMove(agent, text, move_id, round_num)
         IN CASE text.json.kind \in {"unterminated", "invalid"} ->
                   Returned(fallback)
              [] text.json.kind = "array" ->
                   Raised(Exc("AttributeError"), fallback)
              [] text.json.kind = "object" ->
                   LET data == text.json.data
                       err == ClaimConfidenceError(Get(data, "claims", <<>>))
                   IN IF err = "TypeError"
                      THEN Raised(Exc("TypeError"), fallback)
                      ELSE IF err = "ValueError"
                      THEN Returned(fallback)
                      ELSE Returned(ParsedMove(agent, text, data, move_id, round_num))

(***************************************************************************)
(* DebateAgent.make_move (agent.py:33-65).  A response of the client is    *)
(* [raised, exc, text, usage]: messages.create raises, or returns a text   *)
(* and its token counts.  Building the user prompt slices the content of   *)
(* every shown prior move (agent.py:123), which raises TypeError on a      *)
(* content that cannot be sliced, before the client is called.             *)
(***************************************************************************)
PromptRaises(prior_moves, is_synthesizer) ==
    LET shown == ShownMoves(prior_moves, is_synthesizer)
    IN \E k \in 1..Len(shown) : ~Sliceable(shown[k].content)

make_move(agent, response, prior_moves, move_id, round_num) ==
    LET fallback == FallbackMove(agent, response.text, move_id, round_num)
    IN IF PromptRaises(prior_moves, agent.is_synthesizer)
       THEN Raised(Exc("TypeError"), fallback)
       ELSE IF response.raised
       THEN Raised(response.exc, fallback)
       ELSE LET parsed == parse_response(agent, response.text, move_id, round_num)
            IN IF parsed.raised THEN parsed
               ELSE Returned([parsed.move EXCEPT
                                !.input_tokens = response.usage.input_tokens,
                                !.output_tokens = response.usage.output_tokens])

(***************************************************************************)
(* DebateState (schemas.py:163-214).                                       *)
(***************************************************************************)
RECURSIVE SumSeq(_)
SumSeq(xs) == IF xs = <<>> THEN 0 ELSE Head(xs) + SumSeq(Tail(xs))

\* total_claims: sum(len(m.claims) for m in self.moves)
total_claims(st) == SumSeq([k \in 1..Len(st.moves) |-> Len(st.moves[k].claims)])

NewDebateState(spec, panel) ==
    [spec_title |-> spec.title, panel_name |-> panel.name,
     model |-> "claude-sonnet-4-6", synth_model |-> "claude-opus-4-6",
     num_experts |-> Len(panel.experts), num_rounds |-> Len(spec.rounds),
     moves |-> <<>>, started_at |-> "now", finished_at |-> "",
     total_input_tokens |-> 0, total_output_tokens |-> 0]

DebateState_to_dict(st) ==
    [spec_title |-> st.spec_title, panel_name |-> st.panel_name,
     model |-> st.model, synth_model |-> st.synth_model,
     num_experts |-> st.num_experts, num_rounds |-> st.num_rounds,
     total_moves |-> Len(st.moves), total_claims |-> total_claims(st),
     total_input_tokens |-> st.total_input_tokens,
     total_output_tokens |-> st.total_output_tokens,
     started_at |-> st.started_at, finished_at |-> st.finished_at,
     moves |-> [k \in 1..Len(st.moves) |-> Move_to_dict(st.moves[k])]]

\* DebateState.from_dict (schemas.py:199-214)
DebateState_from_dict(d) ==
    [spec_title |-> Get(d, "spec_title", ""),
     panel_name |-> Get(d, "panel_name", ""),
     model |-> Get(d, "model", ""), synth_model |-> Get(d, "synth_model", ""),
     num_experts |-> Get(d, "num_experts", 0),
     num_rounds |-> Get(d, "num_rounds", 0),
     moves |-> [k \in 1..Len(Get(d, "moves", <<>>)) |->
                   Move_from_dict(Get(d, "moves", <<>>)[k])],
     started_at |-> Get(d, "started_at", ""),
     finished_at |-> Get(d, "finished_at", ""),
     total_input_tokens |-> Get(d, "total_input_tokens", 0),
     total_output_tokens |-> Get(d, "total_output_tokens", 0)]

(***************************************************************************)
(* The inputs of a run: the runner's configuration, what the model can     *)
(* answer, and whether a write to the output directory succeeds.           *)
(***************************************************************************)
E1 == Expert("e1", "Ann", "Economist")
E2 == Expert("e2", "Bob", "Engineer")
ThePanel == [name |-> "panel", experts |-> <<E1, E2>>]

DebateSpec(title, rounds) == [title |-> title, rounds |-> rounds]

L0 == [id |-> "L0", text |-> "old lesson", source_debate |-> "earlier",
       source_round |-> 0, category |-> "process", confidence |-> 8,
       created_at |-> "before"]

Configs ==
    { [spec |-> DebateSpec("two experts then synthesis",
                   <<RoundSpec(1, <<"e1", "e2">>), RoundSpec(2, <<"synthesizer">>)>>),
       use_memory |-> TRUE, lessons |-> <<>>],
      [spec |-> DebateSpec("unknown agent in the middle",
                   <<RoundSpec(1, <<"e1", "ghost", "e2">>)>>),
       use_memory |-> FALSE, lessons |-> <<L0>>],
      [spec |-> DebateSpec("mixed round",
                   <<RoundSpec(2, <<"ghost">>), RoundSpec(5, <<"synthesizer", "e1">>)>>),
       use_memory |-> TRUE, lessons |-> <<L0>>],
      [spec |-> DebateSpec("no rounds", <<>>),
       use_memory |-> FALSE, lessons |-> <<>>] }

Usages ==
    {[input_tokens |-> 0, output_tokens |-> 0]} \cup
    {[input_tokens |-> a, output_tokens |-> a + 1] : a \in 1..MaxTok}

Text(body, len, json) == [body |-> body, len |-> len, json |-> json]

Texts ==
    { Text("not json", 4000, [kind |-> "invalid"]),
      Text("json array", 40, [kind |-> "array"]),
      Text("claim json", 900,
           [kind |-> "object",
            data |-> [move_type |-> "claim", content |-> Str(<<"analysis">>, 600),
                      claims |-> << [id |-> "c1", text |-> "t",
                                     confidence |-> [type |-> "num", value |-> 8]] >>,
                      targets |-> <<>>]]),
      Text("numeric content", 30,
           [kind |-> "object", data |-> [content |-> NonStr("int")]]) }

NoText == Text("", 0, [kind |-> "invalid"])
NoUsage == [input_tokens |-> 0, output_tokens |-> 0]

Responses ==
    {[raised |-> TRUE, exc |-> Exc("APIError"), text |-> NoText, usage |-> NoUsage]}
    \cup {[raised |-> FALSE, exc |-> Exc(""), text |-> t, usage |-> u] :
             t \in self.texts, u \in Usages}

(***************************************************************************)
(* DebateRunner.run, the turn loop (runner.py:110-176).                    *)
(***************************************************************************)
Rounds == self.spec.rounds
InLoop == rnd_idx <= Len(Rounds)
CurRound == Rounds[rnd_idx]
InRound == InLoop /\ agent_idx <= Len(CurRound.agents)
CurAgentId == CurRound.agents[agent_idx]
Resolves(agent_id) == agent_id \in DOMAIN self.agents

WriteFile(files, name, doc) ==
    [n \in DOMAIN files \cup {name} |-> IF n = name THEN doc ELSE files[n]]

\* lines 159-167: the replacement Move of the except branch
ErrorMove(move_id, agent_id, title, number, e) ==
    Move(move_id, agent_id, title, number, "error", AgentErrorContent(e), <<>>, <<>>)

\* mutant of AddTokens: the output tokens are not added
AddTokens_InputOnly(st, move) ==
    [st EXCEPT !.total_input_tokens = @ + move.input_tokens]

\* lines 138-139
AddTokens(st, move) ==
    [st EXCEPT !.total_input_tokens = @ + move.input_tokens,
               !.total_output_tokens = @ + move.output_tokens]

\* lines 137-155, after make_move returned `move`: what the rest of the try
\* block leaves behind, and the exception that ends it (type "" if none).
\* The write of lines 142-147 raises OSError when the file system refuses
\* it; the preview of line 150 raises TypeError on a content that cannot
\* be sliced.
TryRest(st, files, move, counter, number, agent_id, fs_ok) ==
    LET st1 == AddTokens([st EXCEPT !.moves = Append(@, move)], move)
    IN IF ~fs_ok
       THEN [state |-> st1, files |-> files, exc |-> Exc("OSError")]
       ELSE LET files1 == WriteFile(files, MoveFileName(counter, number, agent_id),
                                    Move_to_dict(move))
            IN IF ~Sliceable(move.content)
               THEN [state |-> st1, files |-> files1, exc |-> Exc("TypeError")]
               ELSE [state |-> st1, files |-> files1, exc |-> Exc("")]

\* mutant of ExceptBranch: the exception is caught and no Move is appended
ExceptBranch_Swallow(st, move_id, agent_id, title, number, e) == st

\* lines 157-167
ExceptBranch(st, move_id, agent_id, title, number, e) ==
    [st EXCEPT !.moves = Append(@, ErrorMove(move_id, agent_id, title, number, e))]

\* lines 128-167 for one response of the capability
RunTurn(st, files, agent, response, counter, number, agent_id, fs_ok) ==
    LET move_id == FormatMoveId(counter)
        title == display_title(agent.expert)
        made == make_move(agent, response, st.moves, move_id, number)
    IN IF made.raised
       THEN [state |-> ExceptBranch(st, move_id, agent_id, title, number, made.exc),
             files |-> files, capability |-> "raised", exc |-> made.exc]
       ELSE LET rest == TryRest(st, files, made.move, counter, number, agent_id, fs_ok)
            IN IF rest.exc.type # ""
               THEN [state |-> ExceptBranch(rest.state, move_id, agent_id, title,
                                            number, rest.exc),
                     files |-> rest.files, capability |-> "returned", exc |-> rest.exc]
               ELSE [state |-> rest.state, files |-> rest.files,
                     capability |-> "returned", exc |-> rest.exc]

NoInvocation ==
    [agent_id |-> "", is_synthesizer |-> FALSE, move_id |-> FormatMoveId(0),
     round |-> 0, prior_moves |-> <<>>, shown |-> <<>>, memory_context |-> <<>>,
     capability |-> "none", exc |-> Exc(""), text |-> NoText]

(***************************************************************************)
(* MemoryManager (memory.py).  A collection file is the sequence of its    *)
(* records; a missing file reads as the empty sequence.                    *)
(***************************************************************************)
\* A file that does not exist: os.path.exists is false for it.  The file of
\* a list and the file of a mapping have a marker each.
NoListFile == << [no_such_file |-> TRUE] >>
NoDictFile == [no_such_file |-> TRUE]
exists(file) == file # NoListFile
mapping_exists(file) == file # NoDictFile

\* from_dict keeps the keys that are fields of the dataclass (Lesson,
\* schemas.py:233-235; Forecast, 264-267); Lesson.to_dict is asdict
LessonFields ==
    {"id", "text", "source_debate", "source_round", "category", "confidence",
     "created_at"}
from_dict(d, fields) == [k \in DOMAIN d \cap fields |-> d[k]]
Lesson_to_dict(l) == l

\* _load_json_list (lines 281-287) and save_lessons (lines 43-47)
load_json_list(file, fields) == [k \in 1..Len(file) |-> from_dict(file[k], fields)]
save_lessons(lessons) == [k \in 1..Len(lessons) |-> Lesson_to_dict(lessons[k])]

\* mutant of load_lessons: the learned lessons come first
load_lessons_LearnedFirst(bootstrap, learned) ==
    (IF exists(learned) THEN load_json_list(learned, LessonFields) ELSE <<>>)
    \o (IF exists(bootstrap) THEN load_json_list(bootstrap, LessonFields) ELSE <<>>)

\* load_lessons (lines 29-41)
load_lessons(bootstrap, learned) ==
    (IF exists(bootstrap) THEN load_json_list(bootstrap, LessonFields) ELSE <<>>)
    \o (IF exists(learned) THEN load_json_list(learned, LessonFields) ELSE <<>>)

\* load_context (lines 49-58): one line per lesson of lessons[-20:], in the
\* order of the slice; the empty string (no line) for no lesson
ContextLine(l) == <<"- [", l.category, "] ", l.text>>
\* mutant of load_context: the slice is taken from the head
load_context_FirstLessons(bootstrap, learned) ==
    LET lessons == load_lessons(bootstrap, learned)
    IN IF lessons = <<>> THEN <<>>
       ELSE LET slice == SubSeq(lessons, 1, Min(Len(lessons), CONTEXT_LESSONS))
            IN [k \in 1..Len(slice) |-> ContextLine(slice[k])]

load_context(bootstrap, learned) ==
    LET lessons == load_lessons(bootstrap, learned)
    IN IF lessons = <<>> THEN <<>>
       ELSE LET slice == LastN(lessons, CONTEXT_LESSONS)
            IN [k \in 1..Len(slice) |-> ContextLine(slice[k])]

\* extract_lessons_from_debate (lines 60-158).  The answer of the model is
\* [raised, kind, raw]: messages.create raises, or its text is of a kind
\*   "invalid"       no JSON (JSONDecodeError) or an unterminated fence
\*                   (ValueError): caught at line 157, nothing written
\*   "list"          a JSON array of lesson objects, raw
\*   "object"        one JSON object, wrapped into a list at line 131
\*   "list_nondict"  an array with an element that is no object: rl.get
\*                   raises AttributeError, which line 157 does not catch
\* The result is the learned-lessons file afterwards and the exception that
\* leaves the call (type "" if none).
DEFAULT_LESSON_CONFIDENCE == 7     \* memory.py:140, 0.7 in tenths

\* A raw confidence is [type, value] as in a claim: float() at line 140
\* raises TypeError on JSON null, which line 157 does not catch, and
\* ValueError on a non-numeric string, which it does.
LessonConfidence(rl) ==
    Get(rl, "confidence", [type |-> "num", value |-> DEFAULT_LESSON_CONFIDENCE])

LessonConfidenceError(raw_lessons) ==
    LET bad == {k \in 1..Len(raw_lessons) : LessonConfidence(raw_lessons[k]).type # "num"}
    IN IF bad = {} THEN ""
       ELSE LET first == CHOOSE k \in bad : \A j \in bad : k <= j
            IN IF LessonConfidence(raw_lessons[first]).type = "null"
               THEN "TypeError" ELSE "ValueError"

\* lines 135-141; source_round and created_at take their defaults
NewLesson(rl, st) ==
    [id |-> Get(rl, "id", "L_now"), text |-> Get(rl, "text", ""),
     source_debate |-> st.spec_title, source_round |-> 0,
     category |-> Get(rl, "category", "methodology"),
     confidence |-> LessonConfidence(rl).value,
     created_at |-> "now"]

\* mutant of existing_from_file: the merge starts from load_lessons(), the
\* bootstrap seed included
existing_from_file_WithBootstrap(bootstrap, learned) ==
    load_json_list(load_lessons(bootstrap, learned), LessonFields)

\* lines 147-151: the merge starts from the learned file alone
existing_from_file(bootstrap, learned) ==
    IF exists(learned) THEN load_json_list(learned, LessonFields) ELSE <<>>

extract_lessons_from_debate(bootstrap, learned, st, answer, fs_ok) ==
    IF answer.raised THEN [lessons |-> learned, exc |-> Exc("APIError")]
    ELSE CASE answer.kind = "invalid" -> [lessons |-> learned, exc |-> Exc("")]
           [] answer.kind = "list_nondict" ->
                [lessons |-> learned, exc |-> Exc("AttributeError")]
           [] answer.kind \in {"list", "object"} ->
                LET err == LessonConfidenceError(answer.raw)
                    new_lessons == [k \in 1..Len(answer.raw) |->
                                       NewLesson(answer.raw[k], st)]
                IN IF err = "TypeError"
                   THEN [lessons |-> learned, exc |-> Exc("TypeError")]
                   ELSE IF err = "ValueError"
                   THEN [lessons |-> learned, exc |-> Exc("")]
                   ELSE IF fs_ok
                   THEN [lessons |->
                            save_lessons(existing_from_file(bootstrap, learned)
                                            \o new_lessons),
                         exc |-> Exc("")]
                   ELSE [lessons |-> learned, exc |-> Exc("OSError")]

LessonAnswer(raised, kind, raw) == [raised |-> raised, kind |-> kind, raw |-> raw]

LessonAnswers ==
    { LessonAnswer(TRUE, "invalid", <<>>),
      LessonAnswer(FALSE, "invalid", <<>>),
      LessonAnswer(FALSE, "list_nondict", <<>>),
      LessonAnswer(FALSE, "list",
                   << [id |-> "L1", text |-> "new lesson", category |-> "domain"] >>) }

(***************************************************************************)
(* update_panel_performance (memory.py:236-277).  avg_confidence is kept   *)
(* as an exact fraction [num, den] of tenths, in lowest terms.             *)
(***************************************************************************)
RECURSIVE Gcd(_, _)
Gcd(a, b) == IF b = 0 THEN a ELSE Gcd(b, a % b)

Rat(num, den) ==
    IF num = 0 THEN [num |-> 0, den |-> 1]
    ELSE LET g == Gcd(num, den) IN [num |-> num \div g, den |-> den \div g]
RatAdd(x, y) == Rat(x.num * y.den + y.num * x.den, x.den * y.den)
RatMul(x, y) == Rat(x.num * y.num, x.den * y.den)
RatDiv(x, y) == Rat(x.num * y.den, x.den * y.num)
RatInt(n) == Rat(n, 1)

NewExpertPerformance(eid) ==
    [expert_id |-> eid, debates_participated |-> 0, total_claims |-> 0,
     avg_confidence |-> RatInt(0), challenges_received |-> 0,
     challenges_made |-> 0]

\* lines 241-245: the keys of all_targets
AllTargets(moves) ==
    UNION {{moves[k].targets[j] : j \in 1..Len(moves[k].targets)} :
              k \in 1..Len(moves)}

\* mutant of UpdateRecord: avg_confidence becomes the mean of the old
\* average and the average of the new Move
UpdateRecord_MeanOfMeans(p, move, all_targets) ==
    LET n_claims == Len(move.claims)
        total == p.total_claims + n_claims
        conf_sum == SumSeq([k \in 1..n_claims |-> move.claims[k].confidence])
        avg == IF n_claims > 0 /\ total > 0
               THEN RatDiv(RatAdd(p.avg_confidence, Rat(conf_sum, n_claims)),
                           RatInt(2))
               ELSE p.avg_confidence
        received == Cardinality({k \in 1..n_claims : move.claims[k].id \in all_targets})
    IN [p EXCEPT !.debates_participated = @ + 1,
                 !.total_claims = total,
                 !.avg_confidence = avg,
                 !.challenges_made = @ + Len(move.targets),
                 !.challenges_received = @ + received]

\* lines 251-275 for one counted move
UpdateRecord(p, move, all_targets) ==
    LET n_claims == Len(move.claims)
        total == p.total_claims + n_claims
        prev == total - n_claims
        conf_sum == SumSeq([k \in 1..n_claims |-> move.claims[k].confidence])
        avg == IF n_claims > 0 /\ total > 0
               THEN RatDiv(RatAdd(RatMul(p.avg_confidence, RatInt(prev)),
                                  RatMul(Rat(conf_sum, n_claims), RatInt(n_claims))),
                           RatInt(total))
               ELSE p.avg_confidence
        received == Cardinality({k \in 1..n_claims : move.claims[k].id \in all_targets})
    IN [p EXCEPT !.debates_participated = @ + 1,
                 !.total_claims = total,
                 !.avg_confidence = avg,
                 !.challenges_made = @ + Len(move.targets),
                 !.challenges_received = @ + received]

\* mutant of UpdateAll: error and synthesize Moves are counted as well
RECURSIVE UpdateAll_CountsEveryMove(_, _, _)
UpdateAll_CountsEveryMove(perf, moves, all_targets) ==
    IF moves = <<>> THEN perf
    ELSE LET move == Head(moves)
             eid == move.agent_id
             p == IF eid \in DOMAIN perf THEN perf[eid]
                  ELSE NewExpertPerformance(eid)
         IN UpdateAll_CountsEveryMove(
                WriteFile(perf, eid, UpdateRecord(p, move, all_targets)),
                Tail(moves), all_targets)

RECURSIVE UpdateAll(_, _, _)
UpdateAll(perf, moves, all_targets) ==
    IF moves = <<>> THEN perf
    ELSE LET move == Head(moves) IN
         IF move.move_type \in {"error", "synthesize"}
         THEN UpdateAll(perf, Tail(moves), all_targets)
         ELSE LET eid == move.agent_id
                  p == IF eid \in DOMAIN perf THEN perf[eid]
                       ELSE NewExpertPerformance(eid)
              IN UpdateAll(WriteFile(perf, eid, UpdateRecord(p, move, all_targets)),
                           Tail(moves), all_targets)

\* mutant of load_performance: the file is read without the test of line 225
load_performance_Unguarded(file) == file

\* load_performance (lines 224-229); ExpertPerformance.from_dict keeps the
\* fields of a record, which are all a stored record has
load_performance(file) == IF mapping_exists(file) THEN file ELSE <<>>

\* mutant of update_panel_performance: the store is replaced by the records
\* of the given debate alone
update_panel_performance_Replaces(file, st) ==
    UpdateAll(<<>>, st.moves, AllTargets(st.moves))

\* mutant of update_panel_performance: the target index is filled while the
\* Moves are passed, so a Move sees the targets of the Moves up to itself
RECURSIVE UpdateAll_IndexSoFar(_, _, _)
UpdateAll_IndexSoFar(perf, moves, k) ==
    IF k > Len(moves) THEN perf
    ELSE LET move == moves[k] IN
         IF move.move_type \in {"error", "synthesize"}
         THEN UpdateAll_IndexSoFar(perf, moves, k + 1)
         ELSE LET eid == move.agent_id
                  p == IF eid \in DOMAIN perf THEN perf[eid]
                       ELSE NewExpertPerformance(eid)
                  so_far == AllTargets(SubSeq(moves, 1, k))
              IN UpdateAll_IndexSoFar(
                     WriteFile(perf, eid, UpdateRecord(p, move, so_far)),
                     moves, k + 1)
update_panel_performance_IndexSoFar(file, st) ==
    UpdateAll_IndexSoFar(load_performance(file), st.moves, 1)

update_panel_performance(file, st) ==
    UpdateAll(load_performance(file), st.moves, AllTargets(st.moves))

(***************************************************************************)
(* compute_actual_cost (cost.py:102-139): the token split of the cost      *)
(* document.  The price arithmetic is a function of these four sums.       *)
(***************************************************************************)
compute_actual_cost(st) ==
    LET synth(m) == m.move_type = "synthesize"
        part(k, is_synth, field) ==
            IF synth(st.moves[k]) = is_synth THEN st.moves[k][field] ELSE 0
        sum(is_synth, field) ==
            SumSeq([k \in 1..Len(st.moves) |-> part(k, is_synth, field)])
    IN [agent_input_tokens |-> sum(FALSE, "input_tokens"),
        agent_output_tokens |-> sum(FALSE, "output_tokens"),
        synth_input_tokens |-> sum(TRUE, "input_tokens"),
        synth_output_tokens |-> sum(TRUE, "output_tokens")]

\* no MemoryManager call has been made on its own
NoMemCall ==
    [op |-> "none", id |-> "", outcome |-> FALSE, answer |-> <<>>,
     lessons_before |-> <<>>, forecasts_before |-> <<>>, exc |-> Exc(""),
     perf_before |-> <<>>, debates |-> <<>>, saved |-> <<>>]

(***************************************************************************)
(* The run as a state machine.  Init is the runner after __init__ with the *)
(* locals of run() at their first values (lines 85-92 and 110).            *)
(***************************************************************************)
Init ==
    \E cfg \in Configs :
        /\ self = [spec |-> cfg.spec, panel |-> ThePanel,
                   use_memory |-> cfg.use_memory,
                   agents |-> InitAgents(ThePanel.experts), texts |-> Texts]
        /\ pc = "start"
        /\ rnd_idx = 1
        /\ agent_idx = 1
        /\ move_counter = 1
        /\ memory_context = <<>>
        /\ state = NewDebateState(cfg.spec, ThePanel)
        /\ invocation = NoInvocation
        /\ calls = <<>>
        /\ move_files = <<>>
        /\ out_files = <<>>
        /\ bootstrap_file = <<>>
        /\ lessons_file = cfg.lessons
        /\ performance_file = <<>>
        /\ result = <<>>
        /\ warned = Exc("")
        /\ forecasts_file = <<>>
        /\ mem_call = NoMemCall

memory_files == <<bootstrap_file, lessons_file, performance_file>>
store_vars == <<forecasts_file, mem_call>>
loop_vars == <<rnd_idx, agent_idx, move_counter>>

\* lines 94-97
LoadMemory ==
    /\ pc = "start"
    /\ memory_context' = IF self.use_memory
                         THEN load_context(bootstrap_file, lessons_file)
                         ELSE <<>>
    /\ pc' = "turn"
    /\ UNCHANGED <<self, loop_vars, state, invocation, calls, move_files,
                   out_files, memory_files, result, warned, store_vars>>

\* mutant of SkipAgent: the skipped reference consumes a move id
SkipAgent_ConsumesId ==
    /\ pc = "turn" /\ InRound
    /\ ~Resolves(CurAgentId)
    /\ agent_idx' = agent_idx + 1
    /\ move_counter' = move_counter + 1
    /\ UNCHANGED <<self, pc, rnd_idx, memory_context, state, invocation,
                   calls, move_files, out_files, memory_files, result, warned, store_vars>>

\* lines 119-122
SkipAgent ==
    /\ pc = "turn" /\ InRound
    /\ ~Resolves(CurAgentId)
    /\ agent_idx' = agent_idx + 1
    /\ UNCHANGED <<self, pc, rnd_idx, move_counter, memory_context, state,
                   invocation, calls, move_files, out_files, memory_files, result, warned, store_vars>>

\* lines 119-136 and agent.py:44-56: the agent is resolved, its move id is
\* allocated and the capability is invoked
\* mutant of Invocation: the agent is handed the moves of its own round only
Invocation_ThisRoundOnly(agent_id, agent, counter, number, prior_moves, context) ==
    LET this_round(m) == m.round = number
        own == SelectSeq(prior_moves, this_round)
    IN [agent_id |-> agent_id, is_synthesizer |-> agent.is_synthesizer,
        move_id |-> FormatMoveId(counter), round |-> number,
        prior_moves |-> own,
        shown |-> ShownMoves(own, agent.is_synthesizer),
        memory_context |-> context, capability |-> "pending", exc |-> Exc(""),
        text |-> NoText]

\* mutant of Invocation: the memory context is not handed to the agent
Invocation_WithoutContext(agent_id, agent, counter, number, prior_moves, context) ==
    [agent_id |-> agent_id, is_synthesizer |-> agent.is_synthesizer,
     move_id |-> FormatMoveId(counter), round |-> number,
     prior_moves |-> prior_moves,
     shown |-> ShownMoves(prior_moves, agent.is_synthesizer),
     memory_context |-> <<>>, capability |-> "pending", exc |-> Exc(""),
     text |-> NoText]

Invocation(agent_id, agent, counter, number, prior_moves, context) ==
    [agent_id |-> agent_id, is_synthesizer |-> agent.is_synthesizer,
     move_id |-> FormatMoveId(counter), round |-> number,
     prior_moves |-> prior_moves,
     shown |-> ShownMoves(prior_moves, agent.is_synthesizer),
     memory_context |-> context, capability |-> "pending", exc |-> Exc(""),
     text |-> NoText]

InvokeAgent ==
    /\ pc = "turn" /\ InRound
    /\ Resolves(CurAgentId)
    /\ invocation' = Invocation(CurAgentId, self.agents[CurAgentId], move_counter,
                                CurRound.number, state.moves, memory_context)
    /\ calls' = Append(calls, invocation')
    /\ pc' = "called"
    /\ UNCHANGED <<self, loop_vars, memory_context, state, move_files,
                   out_files, memory_files, result, warned, store_vars>>

\* mutant of AgentAnswers: a turn that failed ends the loops
AgentAnswers_AbortsOnFailure ==
    /\ pc = "called"
    /\ \E response \in Responses, fs_ok \in BOOLEAN :
          LET out == RunTurn(state, move_files, self.agents[CurAgentId], response,
                             move_counter, CurRound.number, CurAgentId, fs_ok)
              answered == /\ ~response.raised
                          /\ ~PromptRaises(state.moves,
                                           self.agents[CurAgentId].is_synthesizer)
              done == [invocation EXCEPT !.capability = out.capability,
                                         !.exc = out.exc,
                                         !.text = IF answered THEN response.text
                                                  ELSE NoText]
          IN /\ state' = out.state
             /\ move_files' = out.files
             /\ invocation' = done
             /\ calls' = [calls EXCEPT ![Len(calls)] = done]
             /\ rnd_idx' = IF out.capability = "raised" THEN Len(Rounds) + 1
                           ELSE rnd_idx
    /\ move_counter' = move_counter + 1
    /\ agent_idx' = agent_idx + 1
    /\ pc' = "turn"
    /\ UNCHANGED <<self, memory_context, out_files, memory_files, result, warned, store_vars>>

\* lines 128-169: the capability answers (or raises) and the turn ends
AgentAnswers ==
    /\ pc = "called"
    /\ \E response \in Responses, fs_ok \in BOOLEAN :
          LET out == RunTurn(state, move_files, self.agents[CurAgentId], response,
                             move_counter, CurRound.number, CurAgentId, fs_ok)
              answered == /\ ~response.raised
                          /\ ~PromptRaises(state.moves,
                                           self.agents[CurAgentId].is_synthesizer)
              done == [invocation EXCEPT !.capability = out.capability,
                                         !.exc = out.exc,
                                         !.text = IF answered THEN response.text
                                                  ELSE NoText]
          IN /\ state' = out.state
             /\ move_files' = out.files
             /\ invocation' = done
             /\ calls' = [calls EXCEPT ![Len(calls)] = done]
    /\ move_counter' = move_counter + 1
    /\ agent_idx' = agent_idx + 1
    /\ pc' = "turn"
    /\ UNCHANGED <<self, rnd_idx, memory_context, out_files, memory_files, result, warned, store_vars>>

\* lines 171-176: the round is over
EndRound ==
    /\ pc = "turn" /\ InLoop /\ ~InRound
    /\ rnd_idx' = rnd_idx + 1
    /\ agent_idx' = 1
    /\ UNCHANGED <<self, pc, move_counter, memory_context, state, invocation,
                   calls, move_files, out_files, memory_files, result, warned, store_vars>>

\* mutant of Finalize: the state is saved without finished_at being set
Finalize_NoStamp ==
    /\ pc = "turn" /\ ~InLoop
    /\ pc' = "save_state"
    /\ UNCHANGED <<self, loop_vars, memory_context, state, invocation, calls,
                   move_files, out_files, memory_files, result, warned, store_vars>>

\* line 179
Finalize ==
    /\ pc = "turn" /\ ~InLoop
    /\ state' = [state EXCEPT !.finished_at = "now"]
    /\ pc' = "save_state"
    /\ UNCHANGED <<self, loop_vars, memory_context, invocation, calls,
                   move_files, out_files, memory_files, result, warned, store_vars>>

\* A write to the output directory outside any try block: it succeeds, or
\* OSError leaves run()
WriteOut(name, doc, next_pc) ==
    \E fs_ok \in BOOLEAN :
        IF fs_ok
        THEN /\ out_files' = WriteFile(out_files, name, doc)
             /\ pc' = next_pc
             /\ result' = result
        ELSE /\ out_files' = out_files
             /\ pc' = "raised"
             /\ result' = <<Exc("OSError")>>

\* lines 186-188
SaveState ==
    /\ pc = "save_state"
    /\ WriteOut("debate_state.json", DebateState_to_dict(state), "report")
    /\ UNCHANGED <<self, loop_vars, memory_context, state, invocation, calls,
                   move_files, memory_files, warned, store_vars>>

\* lines 191-194; the report text is a function of state, spec and panel
generate_report(st, spec, panel) == <<"report", spec.title, panel.name, st.moves>>

SaveReport ==
    /\ pc = "report"
    /\ WriteOut("report.md", generate_report(state, self.spec, self.panel), "cost")
    /\ UNCHANGED <<self, loop_vars, memory_context, state, invocation, calls,
                   move_files, memory_files, warned, store_vars>>

\* mutant of AfterCost: the post-run memory update does not ask for memory
AfterCost_AlwaysExtract == "extract"

\* lines 197-207
AfterCost == IF self.use_memory THEN "extract" ELSE "finish"

SaveCost ==
    /\ pc = "cost"
    /\ WriteOut("cost.json", compute_actual_cost(state), AfterCost)
    /\ UNCHANGED <<self, loop_vars, memory_context, state, invocation, calls,
                   move_files, memory_files, warned, store_vars>>

\* mutant of AfterExtract: the exception of the extraction leaves run()
AfterExtract_Propagates(exc) == IF exc.type = "" THEN "perf" ELSE "raised"

\* lines 209-212 and 215-216: an exception of the extraction is caught and
\* the performance update is not reached
AfterExtract(exc) == IF exc.type = "" THEN "perf" ELSE "finish"

ExtractLessons ==
    /\ pc = "extract"
    /\ \E answer \in LessonAnswers, fs_ok \in BOOLEAN :
          LET out == extract_lessons_from_debate(bootstrap_file, lessons_file, state,
                                                 answer, fs_ok)
          IN /\ lessons_file' = out.lessons
             /\ warned' = out.exc
             /\ pc' = AfterExtract(out.exc)
    /\ UNCHANGED <<self, loop_vars, memory_context, state, invocation, calls,
                   move_files, out_files, bootstrap_file, performance_file, result, store_vars>>

\* lines 213-216: the update is saved, or reading or writing the
\* performance file raises and the exception is caught
UpdatePerformance ==
    /\ pc = "perf"
    /\ \E fs_ok \in BOOLEAN :
          /\ performance_file' = IF fs_ok
                                 THEN update_panel_performance(performance_file, state)
                                 ELSE performance_file
          /\ warned' = IF fs_ok THEN Exc("") ELSE Exc("OSError")
          /\ pc' = "finish"
    /\ UNCHANGED <<self, loop_vars, memory_context, state, invocation, calls,
                   move_files, out_files, bootstrap_file, lessons_file, result, store_vars>>

\* lines 218-224
Finish ==
    /\ pc = "finish"
    /\ pc' = "returned"
    /\ result' = <<state>>
    /\ UNCHANGED <<self, loop_vars, memory_context, state, invocation, calls,
                   move_files, out_files, memory_files, warned, store_vars>>

Next ==
    \/ LoadMemory
    \/ SkipAgent
    \/ InvokeAgent
    \/ AgentAnswers
    \/ EndRound
    \/ Finalize
    \/ SaveState
    \/ SaveReport
    \/ SaveCost
    \/ ExtractLessons
    \/ UpdatePerformance
    \/ Finish

Spec == Init /\ [][Next]_vars

(***************************************************************************)
(* The same run over model texts of every shape _parse_response meets:     *)
(* payloads that name a move_type of their own or carry identity keys,     *)
(* claims whose confidence is no number, and texts without a JSON object.  *)
(***************************************************************************)
RawClaim(id, confidence) == [id |-> id, text |-> "t", confidence |-> confidence]

Payload(body, data) == Text(body, 500, [kind |-> "object", data |-> data])

TurnTexts ==
    { Text("not json", 4000, [kind |-> "invalid"]),
      Text("open fence", 3500, [kind |-> "unterminated"]),
      Text("json array", 40, [kind |-> "array"]),
      Payload("error json",
              [move_type |-> "error", content |-> Str(<<"gave up">>, 7),
               claims |-> << RawClaim("c1", [type |-> "num", value |-> 5]) >>]),
      Payload("synthesize json",
              [move_type |-> "synthesize", content |-> Str(<<"summary">>, 7)]),
      Payload("identity json",
              [move_id |-> FormatMoveId(999), round |-> 99, agent_id |-> "mallory",
               agent_title |-> <<"Mallory">>, move_type |-> "object",
               content |-> Str(<<"analysis">>, 8), targets |-> <<"c1">>]),
      Payload("text confidence",
              [claims |-> << RawClaim("c1", [type |-> "text", value |-> 0]) >>]),
      Payload("null confidence",
              [claims |-> << RawClaim("c1", [type |-> "null", value |-> 0]) >>]) }

SynthTexts ==
    {t \in TurnTexts : t.body \in {"json array", "identity json", "error json"}}

TurnConfigs ==
    { [spec |-> DebateSpec("every shape of answer",
                   <<RoundSpec(3, <<"e1", "ghost">>)>>),
       use_memory |-> TRUE, lessons |-> <<>>, texts |-> TurnTexts],
      [spec |-> DebateSpec("synthesizer first",
                   <<RoundSpec(7, <<"synthesizer", "e2">>)>>),
       use_memory |-> FALSE, lessons |-> <<>>, texts |-> SynthTexts] }

InitTurns ==
    \E cfg \in TurnConfigs :
        /\ self = [spec |-> cfg.spec, panel |-> ThePanel,
                   use_memory |-> cfg.use_memory,
                   agents |-> InitAgents(ThePanel.experts), texts |-> cfg.texts]
        /\ pc = "start"
        /\ rnd_idx = 1 /\ agent_idx = 1 /\ move_counter = 1
        /\ memory_context = <<>>
        /\ state = NewDebateState(cfg.spec, ThePanel)
        /\ invocation = NoInvocation
        /\ calls = <<>> /\ move_files = <<>> /\ out_files = <<>>
        /\ bootstrap_file = <<>> /\ lessons_file = cfg.lessons
        /\ performance_file = <<>>
        /\ result = <<>> /\ warned = Exc("")
        /\ forecasts_file = <<>> /\ mem_call = NoMemCall

SpecTurns == InitTurns /\ [][Next]_vars

\* The same run when it is not stopped from outside: run() is one sequential
\* call, so a step that can be taken is taken eventually, and a call of the
\* capability returns or raises (AgentAnswers).
SpecProgress == InitTurns /\ [][Next]_vars /\ WF_vars(Next)

(***************************************************************************)
(* _build_user_prompt on its own: prior_moves grows one move at a time,    *)
(* up to MaxPrior moves, and the prompt is built for an agent that is or   *)
(* is not the synthesizer.                                                 *)
(***************************************************************************)
PromptMoves(k) ==
    { Move(FormatMoveId(k), "e1", display_title(E1), 1, "claim",
           Str(<<"analysis">>, 600), <<>>, <<>>),
      ErrorMove(FormatMoveId(k), "e2", display_title(E2), 1, Exc("APIError")) }

InitPrompt ==
    /\ \E synth \in BOOLEAN :
          invocation = [NoInvocation EXCEPT !.is_synthesizer = synth]
    /\ self = [spec |-> DebateSpec("prompt", <<>>), panel |-> ThePanel,
               use_memory |-> FALSE, agents |-> InitAgents(ThePanel.experts),
               texts |-> Texts]
    /\ pc = "prompt"
    /\ rnd_idx = 1 /\ agent_idx = 1 /\ move_counter = 1
    /\ memory_context = <<>>
    /\ state = NewDebateState(self.spec, ThePanel)
    /\ calls = <<>> /\ move_files = <<>> /\ out_files = <<>>
    /\ bootstrap_file = <<>> /\ lessons_file = <<>> /\ performance_file = <<>>
    /\ result = <<>> /\ warned = Exc("")
    /\ forecasts_file = <<>> /\ mem_call = NoMemCall

prompt_frame == <<self, loop_vars, memory_context, state, calls, move_files,
                  out_files, memory_files, result, warned, store_vars>>

GrowPrior ==
    /\ pc \in {"prompt", "prompted"}
    /\ Len(invocation.prior_moves) < MaxPrior
    /\ \E m \in PromptMoves(Len(invocation.prior_moves) + 1) :
          invocation' = [invocation EXCEPT !.prior_moves = Append(@, m)]
    /\ pc' = "prompt"
    /\ UNCHANGED prompt_frame

BuildUserPrompt ==
    /\ pc = "prompt"
    /\ invocation' = [invocation EXCEPT
                         !.shown = ShownMoves(invocation.prior_moves,
                                              invocation.is_synthesizer)]
    /\ pc' = "prompted"
    /\ UNCHANGED prompt_frame

NextPrompt == GrowPrior \/ BuildUserPrompt

SpecPrompt == InitPrompt /\ [][NextPrompt]_vars

(***************************************************************************)
(* The MemoryManager used on its own (memory.py:15-25): a memory directory *)
(* that holds a bootstrap seed and a learned-lessons file, and             *)
(* extract_lessons_from_debate called on a completed debate, any number of *)
(* times.  mem_call records the last call.                                 *)
(***************************************************************************)
MaxLessons == 3

B0 == [id |-> "B0", text |-> "seed lesson", source_debate |-> "bootstrap",
       source_round |-> 0, category |-> "methodology", confidence |-> 9,
       created_at |-> "before"]

NumConf(v) == [type |-> "num", value |-> v]

MemAnswers ==
    LessonAnswers \cup
    { LessonAnswer(FALSE, "list",
                   << [id |-> "L1", text |-> "new lesson", category |-> "domain",
                       confidence |-> NumConf(6)],
                      [text |-> "second lesson"] >>),
      LessonAnswer(FALSE, "object", << [id |-> "L3", text |-> "single lesson"] >>),
      LessonAnswer(FALSE, "list", <<>>),
      LessonAnswer(FALSE, "list",
                   << [id |-> "L4", text |-> "t",
                       confidence |-> [type |-> "null", value |-> 0]] >>),
      LessonAnswer(FALSE, "list",
                   << [id |-> "L5", text |-> "t",
                       confidence |-> [type |-> "text", value |-> 0]] >>) }

InitMemory ==
    /\ self = [spec |-> DebateSpec("memory debate", <<>>), panel |-> ThePanel,
               use_memory |-> TRUE, agents |-> InitAgents(ThePanel.experts),
               texts |-> Texts]
    /\ pc = "memory"
    /\ rnd_idx = 1 /\ agent_idx = 1 /\ move_counter = 1
    /\ memory_context = <<>>
    /\ state = [NewDebateState(self.spec, ThePanel) EXCEPT !.finished_at = "now"]
    /\ invocation = NoInvocation
    /\ calls = <<>> /\ move_files = <<>> /\ out_files = <<>>
    /\ result = <<>> /\ warned = Exc("")
    /\ mem_call = NoMemCall

InitLessons ==
    /\ InitMemory
    /\ bootstrap_file \in {<<>>, <<B0>>}
    /\ lessons_file \in {<<>>, <<L0>>}
    /\ forecasts_file = <<>>
    /\ performance_file = <<>>

memory_frame == <<self, pc, loop_vars, memory_context, state, invocation, calls,
                  move_files, out_files, performance_file, result, warned>>

MemExtract ==
    /\ pc = "memory"
    /\ Len(lessons_file) < MaxLessons
    /\ \E answer \in MemAnswers, fs_ok \in BOOLEAN :
          LET out == extract_lessons_from_debate(bootstrap_file, lessons_file,
                                                 state, answer, fs_ok)
          IN /\ lessons_file' = out.lessons
             /\ mem_call' = [NoMemCall EXCEPT !.op = "extract",
                                              !.answer = <<answer>>,
                                              !.lessons_before = lessons_file,
                                              !.exc = out.exc]
    /\ UNCHANGED <<memory_frame, bootstrap_file, forecasts_file>>

NextLessons == MemExtract

SpecLessons == InitLessons /\ [][NextLessons]_vars

(***************************************************************************)
(* Forecasts (schemas.py:238-267, memory.py:162-186).  A probability is    *)
(* kept in tenths and a Brier score in hundredths, so that                 *)
(* (probability - actual) ** 2 is exact; an Optional value is <<>> for     *)
(* None and <<v>> for v.  forecasts.json holds what to_dict writes, the    *)
(* derived brier_score included.                                           *)
(***************************************************************************)
MaxForecasts == 3

Forecast(id, text, probability, deadline, resolved, outcome) ==
    [id |-> id, text |-> text, probability |-> probability,
     deadline |-> deadline, source_debate |-> "memory debate",
     source_claim_id |-> "", resolved |-> resolved, outcome |-> outcome,
     resolved_at |-> "", created_at |-> "before"]

ForecastFields ==
    {"id", "text", "probability", "deadline", "source_debate",
     "source_claim_id", "resolved", "outcome", "resolved_at", "created_at"}

\* mutant of brier_score: a score is given as soon as an outcome is set
brier_score_IgnoresResolved(f) ==
    IF f.outcome = <<>> THEN <<>>
    ELSE LET actual == IF f.outcome[1] THEN 10 ELSE 0
         IN <<(f.probability - actual) * (f.probability - actual)>>

\* schemas.py:252-257
brier_score(f) ==
    IF ~f.resolved \/ f.outcome = <<>> THEN <<>>
    ELSE LET actual == IF f.outcome[1] THEN 10 ELSE 0
         IN <<(f.probability - actual) * (f.probability - actual)>>

\* schemas.py:259-262
Forecast_to_dict(f) ==
    [k \in DOMAIN f \cup {"brier_score"} |->
        IF k = "brier_score" THEN brier_score(f) ELSE f[k]]

\* memory.py:162-175
load_forecasts(file) ==
    IF exists(file) THEN load_json_list(file, ForecastFields) ELSE <<>>
save_forecasts(forecasts) ==
    [k \in 1..Len(forecasts) |-> Forecast_to_dict(forecasts[k])]
\* mutant of add_forecast: the collection is not loaded before the append
add_forecast_WithoutLoad(file, forecast) ==
    save_forecasts(<<forecast>>)

add_forecast(file, forecast) ==
    save_forecasts(Append(load_forecasts(file), forecast))

\* mutant of Resolved: the flag is set and the outcome is not stored
Resolved_FlagOnly(f, outcome) ==
    [f EXCEPT !.resolved = TRUE, !.resolved_at = "now"]

\* lines 182-184 on one forecast
Resolved(f, outcome) ==
    [f EXCEPT !.resolved = TRUE, !.outcome = <<outcome>>, !.resolved_at = "now"]

\* mutant of resolve_forecast: the loop has no break, every match is resolved
resolve_forecast_EveryMatch(file, forecast_id, outcome) ==
    LET forecasts == load_forecasts(file)
    IN save_forecasts([k \in 1..Len(forecasts) |->
                          IF forecasts[k].id = forecast_id
                          THEN Resolved(forecasts[k], outcome)
                          ELSE forecasts[k]])

\* mutant of resolve_forecast: without a match, the forecast the loop ended
\* on is resolved
resolve_forecast_LastIfUnknown(file, forecast_id, outcome) ==
    LET forecasts == load_forecasts(file)
        matches == {k \in 1..Len(forecasts) : forecasts[k].id = forecast_id}
        hit == IF matches = {} THEN Len(forecasts)
               ELSE CHOOSE k \in matches : \A j \in matches : k <= j
    IN save_forecasts([k \in 1..Len(forecasts) |->
                          IF k = hit THEN Resolved(forecasts[k], outcome)
                          ELSE forecasts[k]])

\* mutant of resolve_forecast: a forecast that is resolved already keeps its
\* first resolution
resolve_forecast_FirstWriteWins(file, forecast_id, outcome) ==
    LET forecasts == load_forecasts(file)
        matches == {k \in 1..Len(forecasts) : forecasts[k].id = forecast_id}
    IN IF matches = {} THEN save_forecasts(forecasts)
       ELSE LET first == CHOOSE k \in matches : \A j \in matches : k <= j
            IN IF forecasts[first].resolved THEN save_forecasts(forecasts)
               ELSE save_forecasts([forecasts EXCEPT
                                       ![first] = Resolved(@, outcome)])

\* memory.py:177-186: the first match in store order is resolved, and the
\* collection is saved in either case
resolve_forecast(file, forecast_id, outcome) ==
    LET forecasts == load_forecasts(file)
        matches == {k \in 1..Len(forecasts) : forecasts[k].id = forecast_id}
    IN IF matches = {} THEN save_forecasts(forecasts)
       ELSE LET first == CHOOSE k \in matches : \A j \in matches : k <= j
            IN save_forecasts([forecasts EXCEPT ![first] = Resolved(@, outcome)])

\* check_forecasts (memory.py:188-220).  The report is kept by its parts: a
\* Resolved section (absent without a resolved forecast) with the count, the
\* average and one line per resolved forecast, and a Pending section
\* (absent without a pending forecast) with the count and one line per
\* pending forecast.  ":.4f" is a number in ten-thousandths, rounded;
\* ":.0%" a number of percent.  The line of a resolved forecast formats
\* f.brier_score with ":.4f", which raises TypeError for None (line 205).
Fixed4(num, den) == (2 * 10000 * num + den) \div (2 * den)
Percent(probability) == probability * 10
NO_FORECASTS == [exc |-> Exc(""), text |-> "No forecasts recorded.",
                 resolved |-> <<>>, pending |-> <<>>]
ResolvedLine(f) ==
    [score |-> Fixed4(brier_score(f)[1], 100), text |-> f.text,
     predicted |-> Percent(f.probability),
     actual |-> IF f.outcome # <<>> /\ f.outcome[1] THEN "YES" ELSE "NO"]
PendingLine(f) ==
    [text |-> f.text, predicted |-> Percent(f.probability),
     deadline |-> f.deadline]
check_forecasts(file) ==
    LET forecasts == load_forecasts(file)
        is_resolved(f) == f.resolved
        is_pending(f) == ~f.resolved
        resolved == SelectSeq(forecasts, is_resolved)
        pending == SelectSeq(forecasts, is_pending)
        has_score(f) == brier_score(f) # <<>>
        scored == SelectSeq(resolved, has_score)
        scores == [k \in 1..Len(scored) |-> brier_score(scored[k])[1]]
        avg_brier == IF scores # <<>> THEN Fixed4(SumSeq(scores), 100 * Len(scores))
                     ELSE 0
    IN IF forecasts = <<>> THEN NO_FORECASTS
       ELSE IF \E k \in 1..Len(resolved) : ~has_score(resolved[k])
       THEN [exc |-> Exc("TypeError"), text |-> "", resolved |-> <<>>,
             pending |-> <<>>]
       ELSE [exc |-> Exc(""), text |-> "# Forecast Tracker",
             resolved |-> IF resolved = <<>> THEN <<>>
                          ELSE << [count |-> Len(resolved), average |-> avg_brier,
                                   lines |-> [k \in 1..Len(resolved) |->
                                                 ResolvedLine(resolved[k])]] >>,
             pending |-> IF pending = <<>> THEN <<>>
                         ELSE << [count |-> Len(pending),
                                  lines |-> [k \in 1..Len(pending) |->
                                                PendingLine(pending[k])]] >>]

\* the forecasts a caller adds: plain ones, two that share an id, and
\* records constructed with resolved or outcome already set
NewForecasts ==
    { Forecast("F1", "rates fall", 9, "2027-01-01", FALSE, <<>>),
      Forecast("F1", "rates fall again", 0, "2027-06-01", FALSE, <<>>),
      Forecast("F2", "launch slips", 10, "2027-01-01", FALSE, <<>>),
      Forecast("F2", "launch slips", 9, "2028-01-01", TRUE, <<>>),
      Forecast("F1", "rates fall", 9, "2027-01-01", FALSE, <<TRUE>>),
      Forecast("F3", "merger closes", 3, "2027-01-01", TRUE, <<FALSE>>) }

ForecastIds == {"F1", "F2", "F3", "F9"}

InitForecasts ==
    /\ InitMemory
    /\ bootstrap_file = <<B0>>
    /\ lessons_file = <<>>
    /\ forecasts_file = <<>>
    /\ performance_file = <<>>

\* result is what the last call returned, nothing for a call that returns
\* None
forecast_frame == <<self, pc, loop_vars, memory_context, state, invocation, calls,
                    move_files, out_files, performance_file, warned>>

MemAddForecast ==
    /\ pc = "memory"
    /\ Len(forecasts_file) < MaxForecasts
    /\ \E forecast \in NewForecasts :
          /\ forecasts_file' = add_forecast(forecasts_file, forecast)
          /\ mem_call' = [NoMemCall EXCEPT !.op = "add", !.id = forecast.id,
                                           !.forecasts_before = forecasts_file]
    /\ result' = <<>>
    /\ UNCHANGED <<forecast_frame, bootstrap_file, lessons_file>>

MemResolveForecast ==
    /\ pc = "memory"
    /\ \E forecast_id \in ForecastIds, outcome \in BOOLEAN :
          /\ forecasts_file' = resolve_forecast(forecasts_file, forecast_id, outcome)
          /\ mem_call' = [NoMemCall EXCEPT !.op = "resolve", !.id = forecast_id,
                                           !.outcome = outcome,
                                           !.forecasts_before = forecasts_file]
    /\ result' = <<>>
    /\ UNCHANGED <<forecast_frame, bootstrap_file, lessons_file>>

MemCheckForecasts ==
    /\ pc = "memory"
    /\ LET report == check_forecasts(forecasts_file)
       IN /\ result' = IF report.exc = Exc("") THEN <<report>> ELSE <<>>
          /\ mem_call' = [NoMemCall EXCEPT !.op = "check", !.exc = report.exc]
    /\ UNCHANGED <<forecast_frame, bootstrap_file, lessons_file, forecasts_file>>

NextForecasts == MemAddForecast \/ MemResolveForecast \/ MemCheckForecasts

SpecForecasts == InitForecasts /\ [][NextForecasts]_vars

\* The forecast store over its lifecycle: every forecast is added as it is
\* created, with resolved False and outcome None (the defaults of
\* schemas.py:246-247), and resolve_forecast is the one call that resolves.
MemAddUnresolved ==
    /\ MemAddForecast
    /\ LET added == forecasts_file'[Len(forecasts_file')]
       IN ~added.resolved /\ added.outcome = <<>>

NextLifecycle == MemAddUnresolved \/ MemResolveForecast \/ MemCheckForecasts

SpecLifecycle == InitForecasts /\ [][NextLifecycle]_vars

(***************************************************************************)
(* Panel performance (memory.py:224-277) over a sequence of completed      *)
(* debates, from a fresh memory directory.  The debate handed to the call  *)
(* is kept in state; mem_call keeps the store before the call and the      *)
(* debates processed so far.                                               *)
(***************************************************************************)
MaxDebates == 3

PerfMove(n, agent_id, move_type, claims, targets) ==
    Move(FormatMoveId(n), agent_id, <<agent_id>>, 1, move_type,
         Str(<<"analysis">>, 8), claims, targets)

PerfState(title, moves) ==
    [NewDebateState(DebateSpec(title, <<>>), ThePanel) EXCEPT
        !.moves = moves, !.finished_at = "now"]

PerfStates ==
    { PerfState("challenge after the claim",
        << PerfMove(1, "e1", "claim",
                    <<Claim("M001_C1", "t", 8), Claim("M001_C2", "t", 5)>>, <<>>),
           PerfMove(2, "e2", "object", <<>>, <<"M001_C1">>),
           PerfMove(3, "synthesizer", "synthesize", <<>>, <<>>) >>),
      PerfState("challenge before the claim",
        << PerfMove(1, "e2", "object", <<Claim("M001_C1", "t", 6)>>,
                    <<"M003_C1", "M009_C9">>),
           PerfMove(2, "e1", "defend", <<>>, <<"M003_C1", "M001_C1">>),
           PerfMove(3, "e1", "claim",
                    <<Claim("M003_C1", "t", 10), Claim("M003_C2", "t", 3)>>,
                    <<>>) >>),
      PerfState("errors and synthesis",
        << PerfMove(1, "e1", "error", <<Claim("M001_C1", "t", 9)>>, <<"M002_C1">>),
           PerfMove(2, "e2", "claim", <<Claim("M002_C1", "t", 4)>>, <<>>),
           PerfMove(3, "synthesizer", "synthesize", <<Claim("M003_C1", "t", 2)>>,
                    <<"M002_C1">>) >>),
      PerfState("one expert only",
        << PerfMove(1, "e2", "claim", <<Claim("M001_C1", "t", 7)>>, <<>>) >>),
      PerfState("no moves", <<>>) }

InitPerformance ==
    /\ InitMemory
    /\ bootstrap_file = <<>>
    /\ lessons_file = <<>>
    /\ forecasts_file = <<>>
    /\ performance_file = <<>>

MemUpdatePerformance ==
    /\ pc = "memory"
    /\ Len(mem_call.debates) < MaxDebates
    /\ \E st \in PerfStates :
          /\ state' = st
          /\ performance_file' = update_panel_performance(performance_file, st)
          /\ mem_call' = [NoMemCall EXCEPT !.op = "perf",
                                           !.perf_before = performance_file,
                                           !.debates = Append(mem_call.debates, st)]
    /\ UNCHANGED <<self, pc, loop_vars, memory_context, invocation, calls,
                   move_files, out_files, result, warned, bootstrap_file,
                   lessons_file, forecasts_file>>

NextPerformance == MemUpdatePerformance

SpecPerformance == InitPerformance /\ [][NextPerformance]_vars

(***************************************************************************)
(* DebateState.to_dict followed by DebateState.from_dict (schemas.py:      *)
(* 182-214) on a DebateState of up to MaxStoredMoves Moves: the state is   *)
(* held in state, the record of to_dict in out_files, and the state read   *)
(* back in result.                                                         *)
(***************************************************************************)
MaxStoredMoves == 2

FullClaim(id, confidence, evidence, assumptions, stance) ==
    [Claim(id, "claim text", confidence) EXCEPT
        !.evidence = evidence, !.assumptions = assumptions, !.stance = stance]

StoredMoves ==
    { [Move(FormatMoveId(1), "e1", display_title(E1), 1, "claim",
            Str(<<"analysis">>, 600),
            << FullClaim("M001_C1", 8,
                         <<Evidence("report A", "quote A"), Evidence("report B", "")>>,
                         <<"assumption 2", "assumption 1">>, "pro"),
               FullClaim("M001_C2", 0, <<>>, <<>>, "contra") >>,
            <<>>)
        EXCEPT !.input_tokens = 120, !.output_tokens = 80, !.timestamp = "t1"],
      [Move(FormatMoveId(2), "e2", display_title(E2), 1, "object",
            Str(<<"objection">>, 300),
            << FullClaim("M002_C1", 10, <<Evidence("", "")>>, <<"a">>, "neutral") >>,
            <<"M001_C2", "M001_C1">>)
        EXCEPT !.timestamp = "t2"],
      ErrorMove(FormatMoveId(3), "e1", display_title(E1), 2, Exc("APIError")),
      Move(FormatMoveId(4), "synthesizer", <<"Debate Synthesizer">>, 3,
           "synthesize", Str(<<"report">>, 5000), <<>>, <<>>) }

RECURSIVE MoveLists(_)
MoveLists(n) ==
    IF n = 0 THEN {<<>>}
    ELSE MoveLists(n - 1) \cup
         {Append(ms, m) : ms \in {l \in MoveLists(n - 1) : Len(l) = n - 1},
                          m \in StoredMoves}

StoredStates ==
    { [NewDebateState(DebateSpec("stored debate", <<RoundSpec(1, <<"e1">>)>>),
                      ThePanel)
        EXCEPT !.moves = ms, !.finished_at = fin,
               !.total_input_tokens = tok, !.total_output_tokens = 2 * tok] :
        ms \in MoveLists(MaxStoredMoves), fin \in {"", "now"}, tok \in {0, 120} }

InitRoundTrip ==
    /\ self = [spec |-> DebateSpec("stored debate", <<>>), panel |-> ThePanel,
               use_memory |-> FALSE, agents |-> InitAgents(ThePanel.experts),
               texts |-> Texts]
    /\ pc = "stored"
    /\ rnd_idx = 1 /\ agent_idx = 1 /\ move_counter = 1
    /\ memory_context = <<>>
    /\ state \in StoredStates
    /\ invocation = NoInvocation
    /\ calls = <<>> /\ move_files = <<>> /\ out_files = <<>>
    /\ bootstrap_file = <<>> /\ lessons_file = <<>> /\ performance_file = <<>>
    /\ result = <<>> /\ warned = Exc("")
    /\ forecasts_file = <<>> /\ mem_call = NoMemCall

roundtrip_frame == <<self, loop_vars, memory_context, state, invocation, calls,
                     move_files, memory_files, warned, store_vars>>

ToDict ==
    /\ pc = "stored"
    /\ out_files' = WriteFile(out_files, "to_dict", DebateState_to_dict(state))
    /\ pc' = "serialized"
    /\ UNCHANGED <<roundtrip_frame, result>>

FromDict ==
    /\ pc = "serialized"
    /\ result' = <<DebateState_from_dict(out_files["to_dict"])>>
    /\ pc' = "deserialized"
    /\ UNCHANGED <<roundtrip_frame, out_files>>

NextRoundTrip == ToDict \/ FromDict

SpecRoundTrip == InitRoundTrip /\ [][NextRoundTrip]_vars

(***************************************************************************)
(* The lesson store (memory.py:29-58): save_lessons, load_lessons and      *)
(* load_context on a memory directory with or without a bootstrap seed and *)
(* with up to MaxStored learned lessons.  result is what the last call     *)
(* returned (nothing for save_lessons); mem_call keeps the list handed to  *)
(* save_lessons.                                                           *)
(***************************************************************************)
MaxStored == 22
MaxSeeds == 2

StoredLesson(k) ==
    [id |-> Str(<<"L", k>>, 2), text |-> Str(<<"lesson", k>>, 8),
     source_debate |-> "earlier", source_round |-> 0,
     category |-> IF k % 2 = 0 THEN "domain" ELSE "process",
     confidence |-> 8, created_at |-> "before"]
SeedLesson(k) ==
    [id |-> Str(<<"B", k>>, 2), text |-> Str(<<"seed", k>>, 6),
     source_debate |-> "bootstrap", source_round |-> 0,
     category |-> "methodology", confidence |-> 9, created_at |-> "before"]

StoredLessons(n) == [k \in 1..n |-> StoredLesson(k)]
SeedFiles == {NoListFile} \cup {[k \in 1..n |-> SeedLesson(k)] : n \in 0..MaxSeeds}

InitStore ==
    /\ InitMemory
    /\ bootstrap_file \in SeedFiles
    /\ lessons_file = NoListFile
    /\ forecasts_file = NoListFile
    /\ performance_file = NoDictFile

store_frame == <<self, pc, loop_vars, memory_context, state, invocation, calls,
                 move_files, out_files, warned, bootstrap_file, forecasts_file,
                 performance_file>>

MemSaveLessons ==
    /\ pc = "memory"
    /\ \E n \in 0..MaxStored :
          /\ lessons_file' = save_lessons(StoredLessons(n))
          /\ mem_call' = [NoMemCall EXCEPT !.op = "save",
                                           !.saved = StoredLessons(n)]
    /\ result' = <<>>
    /\ UNCHANGED store_frame

MemLoadLessons ==
    /\ pc = "memory"
    /\ result' = <<load_lessons(bootstrap_file, lessons_file)>>
    /\ mem_call' = [NoMemCall EXCEPT !.op = "load_lessons"]
    /\ UNCHANGED <<store_frame, lessons_file>>

MemLoadContext ==
    /\ pc = "memory"
    /\ result' = <<load_context(bootstrap_file, lessons_file)>>
    /\ mem_call' = [NoMemCall EXCEPT !.op = "load_context"]
    /\ UNCHANGED <<store_frame, lessons_file>>

NextStore == MemSaveLessons \/ MemLoadLessons \/ MemLoadContext

SpecStore == InitStore /\ [][NextStore]_vars

(***************************************************************************)
(* A fresh memory root (memory.py:18-25): the directory exists and none of *)
(* _bootstrap.json, lessons.json, forecasts.json and performance.json      *)
(* does.  The three loads, and the first add_forecast, resolve_forecast    *)
(* and update_panel_performance, which find their file missing.            *)
(***************************************************************************)
InitFresh ==
    /\ InitMemory
    /\ bootstrap_file = NoListFile
    /\ lessons_file = NoListFile
    /\ forecasts_file = NoListFile
    /\ performance_file = NoDictFile

MemLoadForecasts ==
    /\ pc = "memory"
    /\ result' = <<load_forecasts(forecasts_file)>>
    /\ mem_call' = [NoMemCall EXCEPT !.op = "load_forecasts"]
    /\ UNCHANGED <<store_frame, lessons_file>>

MemLoadPerformance ==
    /\ pc = "memory"
    /\ result' = <<load_performance(performance_file)>>
    /\ mem_call' = [NoMemCall EXCEPT !.op = "load_performance"]
    /\ UNCHANGED <<store_frame, lessons_file>>

FreshAddForecast == forecasts_file = NoListFile /\ MemAddForecast
FreshResolveForecast == forecasts_file = NoListFile /\ MemResolveForecast
FreshUpdatePerformance == performance_file = NoDictFile /\ MemUpdatePerformance

NextFresh ==
    \/ MemLoadLessons
    \/ MemLoadForecasts
    \/ MemLoadPerformance
    \/ FreshAddForecast
    \/ FreshResolveForecast
    \/ FreshUpdatePerformance

SpecFresh == InitFresh /\ [][NextFresh]_vars

(***************************************************************************)
(* cmd_run (cli.py:10-60): validate_spec_against_panel (loader.py:87-105)  *)
(* on the spec and the panel, then DebateRunner(spec, panel).run().  The   *)
(* warnings are kept in result until run() returns.                        *)
(***************************************************************************)
Warning(number, agent_id, panel_name, available) ==
    [round |-> number, agent_id |-> agent_id, panel |-> panel_name,
     available |-> available]

panel_ids(panel) == {panel.experts[k].id : k \in 1..Len(panel.experts)}

\* mutant of RoundWarnings: an unknown id is reported once per round
RoundWarnings_OncePerId(rnd, panel) ==
    LET first_unknown(k) ==
            /\ rnd.agents[k] # "synthesizer"
            /\ rnd.agents[k] \notin panel_ids(panel)
            /\ \A j \in 1..(k - 1) : rnd.agents[j] # rnd.agents[k]
        ks == {k \in 1..Len(rnd.agents) : first_unknown(k)}
        nth(n) == CHOOSE k \in ks : Cardinality({j \in ks : j < k}) = n - 1
    IN [n \in 1..Cardinality(ks) |->
           Warning(rnd.number, rnd.agents[nth(n)], panel.name,
                   Cardinality(panel_ids(panel)))]

\* mutant of RoundWarnings: "synthesizer" is looked up in the panel as well
RoundWarnings_NoReservedId(rnd, panel) ==
    LET unknown(agent_id) == agent_id \notin panel_ids(panel)
        refs == SelectSeq(rnd.agents, unknown)
    IN [k \in 1..Len(refs) |->
           Warning(rnd.number, refs[k], panel.name, Cardinality(panel_ids(panel)))]

\* lines 96-103: the warnings of one round, in the order of rnd.agents
RoundWarnings(rnd, panel) ==
    LET unknown(agent_id) ==
            agent_id # "synthesizer" /\ agent_id \notin panel_ids(panel)
        refs == SelectSeq(rnd.agents, unknown)
    IN [k \in 1..Len(refs) |->
           Warning(rnd.number, refs[k], panel.name, Cardinality(panel_ids(panel)))]

RECURSIVE AllWarnings(_, _)
AllWarnings(rounds, panel) ==
    IF rounds = <<>> THEN <<>>
    ELSE RoundWarnings(Head(rounds), panel) \o AllWarnings(Tail(rounds), panel)

validate_spec_against_panel(spec, panel) == AllWarnings(spec.rounds, panel)

IMPOSTOR == Expert("synthesizer", "Eve", "Impostor")
Panels ==
    { [name |-> "nobody", experts |-> <<>>],
      [name |-> "solo", experts |-> <<E1>>],
      ThePanel,
      [name |-> "with impostor", experts |-> <<E1, IMPOSTOR>>] }

CliSpecs ==
    { DebateSpec("one missing agent", <<RoundSpec(1, <<"e1", "missing_agent">>)>>),
      DebateSpec("same unknown id twice",
                 <<RoundSpec(1, <<"ghost", "e2", "ghost">>),
                   RoundSpec(2, <<"synthesizer", "ghost">>)>>),
      DebateSpec("synthesizer first", <<RoundSpec(4, <<"synthesizer", "e1">>)>>),
      DebateSpec("no round", <<>>) }

CliTexts == {t \in Texts : t.body \in {"not json", "claim json"}}

InitCli ==
    \E spec \in CliSpecs, panel \in Panels :
        /\ self = [spec |-> spec, panel |-> panel,
                   use_memory |-> (Len(spec.rounds) = 1),
                   agents |-> InitAgents(panel.experts), texts |-> CliTexts]
        /\ pc = "validate"
        /\ rnd_idx = 1 /\ agent_idx = 1 /\ move_counter = 1
        /\ memory_context = <<>>
        /\ state = NewDebateState(spec, panel)
        /\ invocation = NoInvocation
        /\ calls = <<>> /\ move_files = <<>> /\ out_files = <<>>
        /\ bootstrap_file = <<>> /\ lessons_file = <<>>
        /\ performance_file = <<>>
        /\ result = <<>> /\ warned = Exc("")
        /\ forecasts_file = <<>> /\ mem_call = NoMemCall

Validate ==
    /\ pc = "validate"
    /\ result' = <<validate_spec_against_panel(self.spec, self.panel)>>
    /\ pc' = "start"
    /\ UNCHANGED <<self, loop_vars, memory_context, state, invocation, calls,
                   move_files, out_files, memory_files, warned, store_vars>>

NextCli == Validate \/ Next

SpecCli == InitCli /\ [][NextCli]_vars

(***************************************************************************)
(* Two runs on one memory root.  Each memory write of a run is a load into *)
(* a local list or mapping, a merge in memory and an overwrite of the      *)
(* whole file: memory.py:147-153 (lesson merge), 172-175 (add_forecast)    *)
(* and 238-277 (update_panel_performance).  Nothing locks the file, so the *)
(* load and the overwrite of a call are two steps between which the other  *)
(* run may take steps.  mem_call[p][kind] is the call of run p on the      *)
(* collection kind: its stage, what it loaded, and the numbers of its load *)
(* and its overwrite among the steps taken on that collection.             *)
(***************************************************************************)
Runs == {1, 2}
Collections == {"lessons", "forecasts", "performance"}

IdleCall == [stage |-> "idle", loaded |-> <<>>, load_no |-> 0, save_no |-> 0]

StepsTaken(kind) ==
    LET steps(p) == CASE mem_call[p][kind].stage = "idle" -> 0
                      [] mem_call[p][kind].stage = "loaded" -> 1
                      [] mem_call[p][kind].stage = "saved" -> 2
    IN steps(1) + steps(2)

Loaded(p, kind, loaded) ==
    [mem_call EXCEPT ![p][kind] = [stage |-> "loaded", loaded |-> loaded,
                                   load_no |-> StepsTaken(kind) + 1,
                                   save_no |-> 0]]
Saved(p, kind) ==
    [mem_call EXCEPT ![p][kind].stage = "saved",
                     ![p][kind].save_no = StepsTaken(kind) + 1]

\* what each run adds: the lesson extracted from its debate, its forecast,
\* and the debate of its one expert
RunDebate(p) ==
    PerfState(IF p = 1 THEN "debate of run 1" ELSE "debate of run 2",
              << PerfMove(1, IF p = 1 THEN "e1" ELSE "e2", "claim",
                          <<Claim("M001_C1", "t", 8)>>, <<>>) >>)
RunLessons(p) ==
    << NewLesson([id |-> IF p = 1 THEN "L1" ELSE "L2", text |-> "new lesson"],
                 RunDebate(p)) >>
RunForecast(p) ==
    IF p = 1 THEN Forecast("F1", "rates fall", 9, "2027-01-01", FALSE, <<>>)
    ELSE Forecast("F2", "launch slips", 10, "2027-01-01", FALSE, <<>>)

\* mutant of merged_onto: the merge is made onto the file as it is at the
\* overwrite
merged_onto_CurrentFile(loaded, current) == current

\* the merge is made onto the local value the call loaded
merged_onto(loaded, current) == loaded

InitTwoRuns ==
    /\ self = [spec |-> DebateSpec("memory debate", <<>>), panel |-> ThePanel,
               use_memory |-> TRUE, agents |-> InitAgents(ThePanel.experts),
               texts |-> Texts]
    /\ pc = "memory"
    /\ rnd_idx = 1 /\ agent_idx = 1 /\ move_counter = 1
    /\ memory_context = <<>>
    /\ state = [NewDebateState(self.spec, ThePanel) EXCEPT !.finished_at = "now"]
    /\ invocation = NoInvocation
    /\ calls = <<>> /\ move_files = <<>> /\ out_files = <<>>
    /\ result = <<>> /\ warned = Exc("")
    /\ bootstrap_file = <<B0>>
    /\ lessons_file = NoListFile
    /\ forecasts_file = NoListFile
    /\ performance_file = NoDictFile
    /\ mem_call = [p \in Runs |-> [kind \in Collections |-> IdleCall]]

\* memory.py:147-151
RunLoadsLessons ==
    \E p \in Runs :
        /\ mem_call[p]["lessons"].stage = "idle"
        /\ mem_call' = Loaded(p, "lessons",
                              existing_from_file(bootstrap_file, lessons_file))
        /\ UNCHANGED <<memory_frame, bootstrap_file, lessons_file, forecasts_file>>

\* memory.py:152-153
RunSavesLessons ==
    \E p \in Runs :
        /\ mem_call[p]["lessons"].stage = "loaded"
        /\ lessons_file' =
              save_lessons(merged_onto(mem_call[p]["lessons"].loaded,
                                       existing_from_file(bootstrap_file, lessons_file))
                           \o RunLessons(p))
        /\ mem_call' = Saved(p, "lessons")
        /\ UNCHANGED <<memory_frame, bootstrap_file, forecasts_file>>

\* memory.py:173
RunLoadsForecasts ==
    \E p \in Runs :
        /\ mem_call[p]["forecasts"].stage = "idle"
        /\ mem_call' = Loaded(p, "forecasts", load_forecasts(forecasts_file))
        /\ UNCHANGED <<memory_frame, bootstrap_file, lessons_file, forecasts_file>>

\* memory.py:174-175
RunSavesForecasts ==
    \E p \in Runs :
        /\ mem_call[p]["forecasts"].stage = "loaded"
        /\ forecasts_file' =
              save_forecasts(Append(merged_onto(mem_call[p]["forecasts"].loaded,
                                                load_forecasts(forecasts_file)),
                                    RunForecast(p)))
        /\ mem_call' = Saved(p, "forecasts")
        /\ UNCHANGED <<memory_frame, bootstrap_file, lessons_file>>

\* memory.py:238
RunLoadsPerformance ==
    \E p \in Runs :
        /\ mem_call[p]["performance"].stage = "idle"
        /\ mem_call' = Loaded(p, "performance", load_performance(performance_file))
        /\ UNCHANGED <<memory_frame, bootstrap_file, lessons_file, forecasts_file>>

\* memory.py:240-277
RunSavesPerformance ==
    \E p \in Runs :
        /\ mem_call[p]["performance"].stage = "loaded"
        /\ performance_file' =
              update_panel_performance(
                  merged_onto(mem_call[p]["performance"].loaded,
                              load_performance(performance_file)),
                  RunDebate(p))
        /\ mem_call' = Saved(p, "performance")
        /\ UNCHANGED <<self, pc, loop_vars, memory_context, state, invocation,
                       calls, move_files, out_files, result, warned,
                       bootstrap_file, lessons_file, forecasts_file>>

NextConcurrent ==
    \/ RunLoadsLessons
    \/ RunSavesLessons
    \/ RunLoadsForecasts
    \/ RunSavesForecasts
    \/ RunLoadsPerformance
    \/ RunSavesPerformance

SpecConcurrent == InitTwoRuns /\ [][NextConcurrent]_vars

TypeOK ==
    /\ pc \in {"start", "turn", "called", "save_state", "report", "cost",
               "extract", "perf", "finish", "returned", "raised",
               "prompt", "prompted", "memory", "validate",
               "stored", "serialized", "deserialized"}
    /\ move_counter \in Nat /\ rnd_idx \in Nat /\ agent_idx \in Nat

(***************************************************************************)
(* Properties of the turn loop.                                            *)
(***************************************************************************)
Moves == state.moves
LoopPcs == {"start", "turn", "called"}
AfterLoop ==
    pc \notin LoopPcs \cup {"prompt", "prompted", "memory", "validate",
                            "stored", "serialized", "deserialized"}

\* the agent references of round r, positions 1..n, that resolve
ResolvableIn(r, n) ==
    Cardinality({k \in 1..n : Resolves(Rounds[r].agents[k])})
NumResolvable ==
    SumSeq([r \in 1..Len(Rounds) |-> ResolvableIn(r, Len(Rounds[r].agents))])

\* the positions of Moves that carry the move id of the k-th invocation
MovesOfCall(k) == {j \in 1..Len(Moves) : Moves[j].move_id = calls[k].move_id}

IsPrefix(xs, ys) == Len(xs) <= Len(ys) /\ SubSeq(ys, 1, Len(xs)) = xs

\* C1: failure isolation.  Whenever the capability call of a turn raised,
\* state.moves holds for that turn one Move of type "error" with no claims
\* and the content "Agent error: <the exception>"; the run is not aborted
\* (run() raises nothing while it is in the turn loop); and once the loop is
\* left, every resolvable agent reference of every round has been invoked.
C1_FailureIsolation ==
    /\ \A k \in 1..Len(calls) :
          calls[k].capability = "raised" =>
             /\ Cardinality(MovesOfCall(k)) = 1
             /\ \A j \in MovesOfCall(k) :
                   /\ Moves[j].move_type = "error"
                   /\ Moves[j].claims = <<>>
                   /\ Moves[j].content = Str(<<"Agent error: ", calls[k].exc.type>>,
                                             13 + Len(calls[k].exc.type))
                   /\ Moves[j].agent_id = calls[k].agent_id
                   /\ Moves[j].round = calls[k].round
    /\ pc = "raised" => state.finished_at # ""
    /\ AfterLoop => Len(calls) = NumResolvable

\* C1 witness: a run that returned, in which a capability call raised and a
\* turn of a later round was still invoked.
C1_Witness ==
    /\ pc = "returned"
    /\ \E k \in 1..Len(calls) : \E j \in (k+1)..Len(calls) :
          /\ calls[k].capability = "raised"
          /\ calls[k].exc.type = "APIError"
          /\ calls[j].round # calls[k].round

\* C2: every turn whose agent id resolves adds exactly one Move, whatever
\* step of the turn fails, so at every turn boundary state.moves holds one
\* Move per invocation and, at the end, one per resolvable agent reference.
C2_ExactlyOneMovePerTurn ==
    /\ pc # "called" => \A k \in 1..Len(calls) : Cardinality(MovesOfCall(k)) = 1
    /\ pc # "called" => Len(Moves) = Len(calls)
    /\ AfterLoop => Len(Moves) = NumResolvable

\* the counter a move id was formatted from
RECURSIVE DigitsValue(_)
DigitsValue(ds) ==
    IF ds = <<>> THEN 0 ELSE 10 * DigitsValue(SubSeq(ds, 1, Len(ds) - 1)) + ds[Len(ds)]

\* C3: in every reachable state the move ids of state.moves are pairwise
\* distinct and strictly increasing in list order.
C3_MoveIdsStrictlyIncreasing ==
    \A i \in 1..Len(Moves) : \A j \in (i+1)..Len(Moves) :
        /\ Moves[i].move_id # Moves[j].move_id
        /\ DigitsValue(Moves[i].move_id.digits) < DigitsValue(Moves[j].move_id.digits)

\* the Moves recorded by the turns before the k-th invocation
RecordedBefore(k) ==
    LET earlier(m) == \E j \in 1..(k-1) : calls[j].move_id = m.move_id
    IN SelectSeq(Moves, earlier)

\* C4: state.moves is append-only (every step leaves the old list as a
\* prefix of the new one), and the prior_moves of every capability
\* invocation is exactly the sequence of Moves recorded by the earlier
\* turns, error Moves included, in turn order.
C4_AppendOnlyCausal ==
    /\ [][IsPrefix(state.moves, state'.moves)]_vars
    /\ [](\A k \in 1..Len(calls) : calls[k].prior_moves = RecordedBefore(k))

\* C4 witness: an invocation that was handed a non-empty history holding an
\* error Move, after which another Move was appended.
C4_Witness ==
    \E k \in 1..Len(calls) :
        /\ Len(calls[k].prior_moves) >= 2
        /\ \E j \in 1..Len(calls[k].prior_moves) :
              calls[k].prior_moves[j].move_type = "error"
        /\ Len(Moves) > Len(calls[k].prior_moves)

\* C5: visibility window.  A synthesizer prompt shows all prior moves; any
\* other prompt shows exactly the last min(6, n) of the n prior moves, in
\* their original order.
C5_VisibilityWindow ==
    pc = "prompted" =>
        LET prior == invocation.prior_moves
            shown == invocation.shown
            n == Len(prior)
        IN IF invocation.is_synthesizer
           THEN shown = prior
           ELSE /\ Len(shown) = (IF n < 6 THEN n ELSE 6)
                /\ \A k \in 1..Len(shown) : shown[k] = prior[n - Len(shown) + k]

\* C5 witness: a non-synthesizer prompt built over more than six prior moves
C5_Witness ==
    /\ pc = "prompted"
    /\ ~invocation.is_synthesizer
    /\ Len(invocation.prior_moves) = 8
    /\ Len(invocation.shown) = 6
    /\ invocation.shown[1] = invocation.prior_moves[3]

\* the resolvable agent references before position (r, i) of the spec
ResolvableBefore(r, i) ==
    SumSeq([q \in 1..(r-1) |-> ResolvableIn(q, Len(Rounds[q].agents))])
    + (IF r <= Len(Rounds) THEN ResolvableIn(r, i - 1) ELSE 0)

\* C6: an agent id that is neither a panel expert id nor "synthesizer" is
\* skipped: no Move carries it, the capability is never invoked for it, it
\* consumes no move id (the k-th invocation carries the k-th id), and the
\* run goes on: at every turn boundary the invocations made are exactly the
\* resolvable references before the current position.
C6_UnresolvedSkipped ==
    /\ \A j \in 1..Len(Moves) :
          Moves[j].agent_id \in {"e1", "e2", "synthesizer"}
    /\ \A k \in 1..Len(calls) :
          /\ calls[k].agent_id \in {"e1", "e2", "synthesizer"}
          /\ calls[k].move_id = [prefix |-> "M", digits |-> <<0, 0, k>>]
    /\ pc = "turn" =>
          /\ Len(calls) = ResolvableBefore(rnd_idx, agent_idx)
          /\ move_counter = Len(calls) + 1
    /\ AfterLoop => Len(calls) = NumResolvable

\* C6 witness: the run over <<"e1", "ghost", "e2">> has returned, with two
\* invocations, the second one for e2 under the id M002.
C6_Witness ==
    /\ pc = "returned"
    /\ Rounds = <<RoundSpec(1, <<"e1", "ghost", "e2">>)>>
    /\ Len(calls) = 2
    /\ calls[2].agent_id = "e2"
    /\ calls[2].move_id.digits = <<0, 0, 2>>

\* C7: every turn that records a Move (successful or error) produces one
\* per-move document, keyed by position, round number and agent id, so at
\* the end the number of per-move documents equals the number of Moves.
C7_OneDocumentPerMove ==
    /\ pc # "called" =>
          \A k \in 1..Len(calls) :
              Cardinality({n \in DOMAIN move_files :
                              /\ DigitsValue(n[1]) = k
                              /\ n[2] = calls[k].round
                              /\ n[3] = calls[k].agent_id}) = 1
    /\ AfterLoop => Cardinality(DOMAIN move_files) = Len(Moves)

\* C8: token accounting.  At every turn boundary the running totals equal
\* the sums of the token counts over state.moves.
C8_TokenAccounting ==
    /\ state.total_input_tokens =
          SumSeq([k \in 1..Len(Moves) |-> Moves[k].input_tokens])
    /\ state.total_output_tokens =
          SumSeq([k \in 1..Len(Moves) |-> Moves[k].output_tokens])
    /\ \A k \in 1..Len(Moves) :
          Moves[k].move_type = "error" =>
             Moves[k].input_tokens = 0 /\ Moves[k].output_tokens = 0

\* C8 witness: a turn boundary with an error Move and a Move with tokens
C8_Witness ==
    /\ pc = "turn"
    /\ state.total_output_tokens > 0
    /\ state.total_input_tokens > 0
    /\ \E k \in 1..Len(Moves) : Moves[k].move_type = "error"
    /\ \E k \in 1..Len(Moves) : Moves[k].output_tokens > 0

StateDocWritten == "debate_state.json" \in DOMAIN out_files

\* C9: finalisation order.  finished_at is empty throughout the turn loop
\* and is set only when every round is over; the full-state document is
\* written with finished_at set and before any memory update starts; the
\* document holds a non-empty finished_at and every recorded Move.
C9_FinalisationOrder ==
    /\ [](pc \in LoopPcs => state.finished_at = "")
    /\ [](state.finished_at # "" => ~InLoop /\ Len(calls) = NumResolvable)
    /\ [](StateDocWritten =>
             LET doc == out_files["debate_state.json"]
             IN /\ doc.finished_at # ""
                /\ doc.total_moves = Len(Moves)
                /\ doc.moves = [k \in 1..Len(Moves) |-> Move_to_dict(Moves[k])])
    /\ [](pc \in {"extract", "perf"} => StateDocWritten)
    /\ [][memory_files' # memory_files => StateDocWritten]_vars
    /\ [][(~StateDocWritten /\ StateDocWritten') =>
             (state.finished_at # "" /\ pc' \notin {"extract", "perf"})]_vars

\* C9 witness: a run with memory enabled that returned with two Moves or
\* more after its memory update wrote lessons
C9_Witness ==
    /\ pc = "returned"
    /\ self.use_memory
    /\ Len(Moves) >= 2
    /\ StateDocWritten
    /\ Len(lessons_file) > 0
    /\ DOMAIN performance_file # {}

\* C10: a failure of the post-run memory update does not leave run(): no
\* step of the memory update raises out of run() or changes the written
\* documents or the state, a caught failure leads to the return, and run()
\* returns the completed DebateState.
C10_MemoryFailureIsolated ==
    /\ [][(pc \in {"extract", "perf"}) =>
             (pc' \in {"perf", "finish"} /\ out_files' = out_files
              /\ move_files' = move_files /\ state' = state)]_vars
    /\ [](warned.type # "" => pc \in {"finish", "returned"})
    /\ [](pc = "returned" => result = <<state>> /\ state.finished_at # "")

\* C10 witness: run() returned the state after the memory update failed,
\* the three documents being in place
C10_Witness ==
    /\ pc = "returned"
    /\ warned.type # ""
    /\ result = <<state>>
    /\ DOMAIN out_files = {"debate_state.json", "report.md", "cost.json"}

\* C11: a failure of the lesson extraction skips the lessons write only:
\* when extract_lessons_from_debate raised (the model call, or an answer
\* that cannot be turned into lessons), the performance update of the same
\* completed debate is applied all the same.
C11_PerformanceUpdatedAfterExtractionFailure ==
    (/\ pc \in {"finish", "returned"}
     /\ self.use_memory
     /\ warned.type \in {"APIError", "AttributeError"})
        => performance_file = update_panel_performance(<<>>, state)

\* the answer of the last extraction call, and whether no lessons can be made
\* of it: no JSON, an element that is no object, or a confidence that is no
\* number
LastAnswer == mem_call.answer[1]
Unparsable(answer) ==
    /\ ~answer.raised
    /\ \/ answer.kind \in {"invalid", "list_nondict"}
       \/ \E k \in 1..Len(answer.raw) : LessonConfidence(answer.raw[k]).type # "num"

\* C12: when the model output of extract_lessons_from_debate cannot be
\* parsed into lessons, the call does not raise and the learned-lessons
\* file is exactly what it was before the call.
C12_UnparsableOutputIsSilent ==
    (mem_call.op = "extract" /\ Unparsable(LastAnswer))
        => (mem_call.exc.type = "" /\ lessons_file = mem_call.lessons_before)

\* C13: after every successful extract_lessons_from_debate the learned
\* store is its previous content followed by the new lessons in order, no
\* call drops or reorders an earlier learned lesson, the store never holds
\* a copy of a bootstrap lesson, and the bootstrap file is never written.
C13_LearnedStoreAppendOnly ==
    /\ []((/\ mem_call.op = "extract"
           /\ mem_call.exc.type = ""
           /\ ~LastAnswer.raised
           /\ ~Unparsable(LastAnswer))
          => lessons_file =
                mem_call.lessons_before \o
                [k \in 1..Len(LastAnswer.raw) |-> NewLesson(LastAnswer.raw[k], state)])
    /\ [][IsPrefix(lessons_file, lessons_file')]_vars
    /\ [](\A k \in 1..Len(lessons_file) : \A j \in 1..Len(bootstrap_file) :
             lessons_file[k] # bootstrap_file[j])
    /\ [][bootstrap_file' = bootstrap_file]_vars

\* C13 witness: with a bootstrap seed and a learned lesson in place, a call
\* appended two new lessons
C13_Witness ==
    /\ mem_call.op = "extract"
    /\ bootstrap_file # <<>>
    /\ mem_call.lessons_before # <<>>
    /\ Len(lessons_file) = Len(mem_call.lessons_before) + 2

\* C14: every Move of state.moves with move_type "error" carries zero
\* claims, whatever the agent capability answered, a payload that names
\* its own move_type included.
C14_ErrorMovesCarryNoClaims ==
    \A k \in 1..Len(Moves) :
        Moves[k].move_type = "error" => Moves[k].claims = <<>>

\* C15: every Move with move_type "synthesize" was recorded for the
\* synthesizer, and every Move of the synthesizer that is no error Move is
\* a "synthesize" Move without claims.
C15_SynthesizeOnlyBySynthesizer ==
    /\ \A k \in 1..Len(Moves) :
          Moves[k].move_type = "synthesize" => Moves[k].agent_id = "synthesizer"
    /\ \A k \in 1..Len(Moves) :
          (Moves[k].agent_id = "synthesizer" /\ Moves[k].move_type # "error")
              => (Moves[k].move_type = "synthesize" /\ Moves[k].claims = <<>>)

\* a model text from which no well-formed payload can be taken: no JSON, an
\* unterminated fence, JSON that is no object, or a claim whose confidence
\* is no number
NoPayload(text) ==
    \/ text.json.kind \in {"invalid", "unterminated", "array"}
    \/ /\ text.json.kind = "object"
       /\ \E c \in {Get(text.json.data, "claims", <<>>)[j] :
                       j \in 1..Len(Get(text.json.data, "claims", <<>>))} :
             RawConfidence(c).type # "num"

\* the fallback Move of agent.py:220-227 for a call
IsFallbackOf(m, call) ==
    /\ m.move_type = "claim"
    /\ m.claims = <<>>
    /\ m.content = StrPrefix(TextContent(call.text), FALLBACK_CHARS)

\* C16: a parse failure is recovered at the agent boundary.  For a turn of
\* an expert whose model text holds no well-formed payload (and whose file
\* write does not fail), the turn records the fallback Move, of type
\* "claim", without claims, with the text cut to 3000 characters, and no
\* error Move.
C16_ParseFailureFallsBack ==
    \A k \in 1..Len(calls) :
        (/\ calls[k].capability # "pending"
         /\ ~calls[k].is_synthesizer
         /\ calls[k].text # NoText
         /\ NoPayload(calls[k].text)
         /\ calls[k].exc.type # "OSError")
            => \A j \in MovesOfCall(k) : IsFallbackOf(Moves[j], calls[k])

\* C17: every Move recorded for a turn carries the move id allocated for
\* the turn, the number of the round being run and the agent id of the
\* turn, whatever the model text holds; so every recorded Move names a
\* round of the spec and an agent of the runner.
C17_IdentityFromCaller ==
    /\ [][(pc = "called") =>
             \A j \in (Len(Moves) + 1)..Len(Moves') :
                 /\ Moves'[j].move_id = FormatMoveId(move_counter)
                 /\ Moves'[j].round = CurRound.number
                 /\ Moves'[j].agent_id = CurAgentId]_vars
    /\ [](\A j \in 1..Len(Moves) :
             /\ Moves[j].round \in {Rounds[r].number : r \in 1..Len(Rounds)}
             /\ Moves[j].agent_id \in DOMAIN self.agents
             /\ DigitsValue(Moves[j].move_id.digits) \in 1..move_counter)

\* C17 witness: a returned run in which the synthesizer and then an expert
\* were answered with a payload that names a move_id, a round and an
\* agent_id of its own, the expert's payload having been parsed
C17_Witness ==
    /\ pc = "returned"
    /\ Len(calls) = 2 /\ Len(Moves) = 2
    /\ calls[1].text.body = "identity json"
    /\ calls[2].text.body = "identity json"
    /\ Moves[1].move_type = "synthesize"
    /\ Moves[2].move_type = "object" /\ Moves[2].targets = <<"c1">>

\* C18: the brier_score of a stored forecast is absent when resolved is
\* false or the outcome is unset, and is otherwise (probability - a)^2 with
\* a = 1 for outcome true and 0 for false (0.9 gives 0.01 and 0.81); two
\* forecasts that agree on resolved, outcome and probability have the same
\* score whatever their other fields are.  (Scores in hundredths.)
C18_BrierScore ==
    /\ \A k \in 1..Len(forecasts_file) :
          LET d == forecasts_file[k] IN
          /\ (~d.resolved \/ d.outcome = <<>>) => d.brier_score = <<>>
          /\ (d.resolved /\ d.outcome = <<TRUE>>)
                => d.brier_score = <<(d.probability - 10) * (d.probability - 10)>>
          /\ (d.resolved /\ d.outcome = <<FALSE>>)
                => d.brier_score = <<d.probability * d.probability>>
          /\ (d.resolved /\ d.outcome = <<TRUE>> /\ d.probability = 9)
                => d.brier_score = <<1>>
          /\ (d.resolved /\ d.outcome = <<FALSE>> /\ d.probability = 9)
                => d.brier_score = <<81>>
    /\ \A k, j \in 1..Len(forecasts_file) :
          LET d == forecasts_file[k]
              e == forecasts_file[j]
          IN (d.resolved = e.resolved /\ d.outcome = e.outcome
                 /\ d.probability = e.probability)
                => d.brier_score = e.brier_score

\* C18 witness: the store holds a forecast of probability 0.9 resolved to
\* true, one resolved to false, and one with an outcome but not resolved
C18_Witness ==
    \E k, j, i \in 1..Len(forecasts_file) :
        /\ forecasts_file[k].resolved /\ forecasts_file[k].outcome = <<TRUE>>
        /\ forecasts_file[k].probability = 9
        /\ forecasts_file[j].resolved /\ forecasts_file[j].outcome = <<FALSE>>
        /\ ~forecasts_file[i].resolved /\ forecasts_file[i].outcome = <<TRUE>>

\* the positions of the store before the last call whose forecast carries
\* the id of the call
MatchesBefore ==
    {k \in 1..Len(mem_call.forecasts_before) :
        mem_call.forecasts_before[k].id = mem_call.id}

\* C19: resolve_forecast(id, outcome) on a store that holds the id sets
\* resolved and outcome on the first forecast with that id in store order,
\* and leaves every other forecast, every other field of that forecast
\* except resolved_at, and the number and order of forecasts unchanged.
C19_ResolveFrame ==
    (mem_call.op = "resolve" /\ MatchesBefore # {}) =>
        LET before == mem_call.forecasts_before
            first == CHOOSE k \in MatchesBefore : \A j \in MatchesBefore : k <= j
        IN /\ Len(forecasts_file) = Len(before)
           /\ forecasts_file[first].resolved
           /\ forecasts_file[first].outcome = <<mem_call.outcome>>
           /\ \A field \in ForecastFields \ {"resolved", "outcome", "resolved_at"} :
                 forecasts_file[first][field] = before[first][field]
           /\ \A k \in 1..Len(before) : k # first => forecasts_file[k] = before[k]

\* C19 witness: a forecast was resolved in a store of three in which a
\* later forecast shares its id
C19_Witness ==
    /\ mem_call.op = "resolve"
    /\ Len(mem_call.forecasts_before) = 3
    /\ Cardinality(MatchesBefore) = 2
    /\ \E k \in MatchesBefore : ~forecasts_file[k].resolved

\* C20: resolve_forecast with an id that no stored forecast carries raises
\* nothing and leaves the collection as it was: the same records, in the
\* same order, with the same field values.
C20_UnknownIdIsNoOp ==
    (mem_call.op = "resolve" /\ MatchesBefore = {}) =>
        /\ mem_call.exc.type = ""
        /\ forecasts_file = mem_call.forecasts_before

\* C20 witness: an unknown id was resolved against a store that holds
\* unresolved forecasts
C20_Witness ==
    /\ mem_call.op = "resolve"
    /\ mem_call.id = "F9"
    /\ Len(mem_call.forecasts_before) >= 2
    /\ \E k \in 1..Len(forecasts_file) : ~forecasts_file[k].resolved

\* the first position of the store before the last call that carries the
\* id of the call
FirstMatch == CHOOSE k \in MatchesBefore : \A j \in MatchesBefore : k <= j

\* C21: resolution is last-write-wins.  Whatever resolution the forecast
\* carried before, after resolve_forecast(id, o) the stored forecast has
\* outcome o and the Brier score computed from o, and no error is raised;
\* resolving again with the outcome it already has leaves outcome and score
\* as they were.  (Scores in hundredths.)
C21_LastWriteWins ==
    (mem_call.op = "resolve" /\ MatchesBefore # {}) =>
        LET was == mem_call.forecasts_before[FirstMatch]
            now == forecasts_file[FirstMatch]
            actual == IF mem_call.outcome THEN 10 ELSE 0
        IN /\ mem_call.exc.type = ""
           /\ now.outcome = <<mem_call.outcome>>
           /\ now.brier_score =
                 <<(now.probability - actual) * (now.probability - actual)>>
           /\ (was.resolved /\ was.outcome = <<mem_call.outcome>>)
                 => (now.outcome = was.outcome /\ now.brier_score = was.brier_score)

\* C21 witness: a forecast that an earlier resolve_forecast had resolved to
\* the opposite outcome was resolved again, and its score changed
C21_Witness ==
    /\ mem_call.op = "resolve"
    /\ MatchesBefore # {}
    /\ mem_call.forecasts_before[FirstMatch].resolved_at = "now"
    /\ mem_call.forecasts_before[FirstMatch].outcome = <<~mem_call.outcome>>
    /\ forecasts_file[FirstMatch].brier_score
          # mem_call.forecasts_before[FirstMatch].brier_score

\* the positions of the Moves of st that update_panel_performance counts
\* for agent e, and sums over them
CountedMoves(st, e) ==
    {k \in 1..Len(st.moves) :
        /\ st.moves[k].agent_id = e
        /\ st.moves[k].move_type \notin {"error", "synthesize"}}
ClaimsOf(st, ks) ==
    SumSeq([k \in 1..Len(st.moves) |->
               IF k \in ks THEN Len(st.moves[k].claims) ELSE 0])
TargetsOf(st, ks) ==
    SumSeq([k \in 1..Len(st.moves) |->
               IF k \in ks THEN Len(st.moves[k].targets) ELSE 0])
AgentsOf(st) == {st.moves[k].agent_id : k \in 1..Len(st.moves)}
\* a counter of the store, 0 for an agent without a record
Counter(perf, e, field) == IF e \in DOMAIN perf THEN perf[e][field] ELSE 0

\* C22: update_panel_performance(state) adds to each agent's counters
\* exactly: debates_participated, one per Move of the agent that is
\* neither "error" nor "synthesize"; total_claims, the claims of those
\* Moves; challenges_made, the targets of those Moves.  Error and
\* synthesize Moves add nothing, and a record exists afterwards for exactly
\* the agents that had one or have a counted Move.
C22_PerformanceCounters ==
    (mem_call.op = "perf") =>
        LET before == mem_call.perf_before IN
        /\ DOMAIN performance_file =
              DOMAIN before \cup {e \in AgentsOf(state) : CountedMoves(state, e) # {}}
        /\ \A e \in DOMAIN performance_file :
              LET ks == CountedMoves(state, e) IN
              /\ performance_file[e].expert_id = e
              /\ performance_file[e].debates_participated =
                    Counter(before, e, "debates_participated") + Cardinality(ks)
              /\ performance_file[e].total_claims =
                    Counter(before, e, "total_claims") + ClaimsOf(state, ks)
              /\ performance_file[e].challenges_made =
                    Counter(before, e, "challenges_made") + TargetsOf(state, ks)

\* C22 witness: on a store that holds a record for e2 only, a debate with
\* two counted Moves of e1 was processed and a record for e1 was created
C22_Witness ==
    /\ mem_call.op = "perf"
    /\ DOMAIN mem_call.perf_before = {"e2"}
    /\ Cardinality(CountedMoves(state, "e1")) = 2
    /\ performance_file["e1"].debates_participated = 2
    /\ performance_file["e1"].challenges_made = 2

\* the claim ids that some Move of st names in its targets
TargetedIds(st) ==
    UNION {{st.moves[k].targets[j] : j \in 1..Len(st.moves[k].targets)} :
              k \in 1..Len(st.moves)}
\* the claims of the Moves ks of st whose id is targeted, one per claim
TargetedClaimsOf(st, ks) ==
    SumSeq([k \in 1..Len(st.moves) |->
               IF k \in ks
               THEN Cardinality({c \in 1..Len(st.moves[k].claims) :
                                    st.moves[k].claims[c].id \in TargetedIds(st)})
               ELSE 0])

\* C23: challenges_received of an agent grows by the number of claims of
\* its counted Moves whose id is among the targets of any Move of the same
\* state, be that Move earlier or later in the list than the targeted one;
\* a claim that several Moves target counts once.
C23_ChallengesReceived ==
    (mem_call.op = "perf") =>
        \A e \in DOMAIN performance_file :
            performance_file[e].challenges_received =
                Counter(mem_call.perf_before, e, "challenges_received")
                + TargetedClaimsOf(state, CountedMoves(state, e))

\* C23 witness: a debate was processed in which a claim of e2 is targeted
\* by a later Move and a claim of e1 by two earlier Moves
C23_Witness ==
    /\ mem_call.op = "perf"
    /\ state.spec_title = "challenge before the claim"
    /\ performance_file["e2"].challenges_received =
          Counter(mem_call.perf_before, "e2", "challenges_received") + 1
    /\ performance_file["e1"].challenges_received =
          Counter(mem_call.perf_before, "e1", "challenges_received") + 1

\* the sum of the confidences (in tenths) of the claims of a Move, and of
\* the Moves ks of st
ConfidenceSum(move) ==
    SumSeq([c \in 1..Len(move.claims) |-> move.claims[c].confidence])
ConfidencesOf(st, ks) ==
    SumSeq([k \in 1..Len(st.moves) |->
               IF k \in ks THEN ConfidenceSum(st.moves[k]) ELSE 0])
\* the record of agent e after the first k Moves of the last call's debate
\* (a fresh record if there is none yet)
RecordAfter(e, k) ==
    LET perf == update_panel_performance(
                    mem_call.perf_before,
                    [state EXCEPT !.moves = SubSeq(state.moves, 1, k)])
    IN IF e \in DOMAIN perf THEN perf[e] ELSE NewExpertPerformance(e)
\* the confidences of all claims counted for e in the debates so far
HistoryConfidences(e) ==
    SumSeq([d \in 1..Len(mem_call.debates) |->
               ConfidencesOf(mem_call.debates[d],
                             CountedMoves(mem_call.debates[d], e))])

\* C24: avg_confidence is a running weighted mean in exact arithmetic.  A
\* counted Move with n > 0 claims gives
\*   new_avg * (old_total + n) = old_avg * old_total + its confidences,
\* a counted Move without claims and every Move that is not counted leave
\* avg_confidence as it was, and from an empty store avg_confidence *
\* total_claims is the sum of the confidences of all claims counted so
\* far.  (Averages are fractions num/den of tenths.)
C24_RunningWeightedMean ==
    (mem_call.op = "perf") =>
        /\ \A e \in DOMAIN performance_file :
              /\ RecordAfter(e, Len(state.moves)) = performance_file[e]
              /\ \A k \in 1..Len(state.moves) :
                    LET old == RecordAfter(e, k - 1)
                        new == RecordAfter(e, k)
                        n == Len(state.moves[k].claims)
                    IN IF k \in CountedMoves(state, e) /\ n > 0
                       THEN new.avg_confidence.num * (old.total_claims + n)
                                * old.avg_confidence.den
                            = (old.avg_confidence.num * old.total_claims
                                 + ConfidenceSum(state.moves[k])
                                     * old.avg_confidence.den)
                                * new.avg_confidence.den
                       ELSE new.avg_confidence = old.avg_confidence
        /\ \A e \in DOMAIN performance_file :
              performance_file[e].avg_confidence.num * performance_file[e].total_claims
                 = HistoryConfidences(e) * performance_file[e].avg_confidence.den

\* C24 witness: after two debates or more an agent has four counted claims
\* or more and an average that is no whole number of tenths
C24_Witness ==
    /\ mem_call.op = "perf"
    /\ Len(mem_call.debates) >= 2
    /\ \E e \in DOMAIN performance_file :
          /\ performance_file[e].total_claims >= 4
          /\ e \in DOMAIN mem_call.perf_before
          /\ mem_call.perf_before[e].total_claims > 0
          /\ CountedMoves(state, e) # {}
          /\ performance_file[e].avg_confidence.den # 1

\* C25: performance is accumulated, never replaced.  A call of
\* update_panel_performance leaves the record of every expert without a
\* counted Move in the given state as it was, removes no record, and
\* decreases none of debates_participated, total_claims, challenges_made
\* and challenges_received, over any sequence of debates.
C25_PerformanceAccumulates ==
    [][\A e \in DOMAIN performance_file :
          /\ e \in DOMAIN performance_file'
          /\ CountedMoves(state', e) = {} => performance_file'[e] = performance_file[e]
          /\ \A field \in {"debates_participated", "total_claims",
                           "challenges_made", "challenges_received"} :
                performance_file'[e][field] >= performance_file[e][field]]_vars

\* C25 witness: a debate in which e1 has no counted Move was processed on
\* a store that held a record of e1, while the record of e2 grew
C25_Witness ==
    /\ mem_call.op = "perf"
    /\ "e1" \in DOMAIN mem_call.perf_before
    /\ "e2" \in DOMAIN mem_call.perf_before
    /\ CountedMoves(state, "e1") = {}
    /\ CountedMoves(state, "e2") # {}
    /\ performance_file["e1"] = mem_call.perf_before["e1"]
    /\ performance_file["e2"] # mem_call.perf_before["e2"]

\* C26: serialization round trip.  For every DebateState s,
\* DebateState.from_dict(s.to_dict()) equals s in every field, the moves
\* and each Move's claims, evidence, assumptions and targets in the same
\* order; the record of to_dict carries total_claims, the sum of
\* len(m.claims) over the moves, and total_moves, the number of moves.
C26_RoundTrip ==
    /\ pc = "deserialized" =>
          /\ result = <<state>>
          /\ \A k \in 1..Len(state.moves) :
                /\ result[1].moves[k].targets = state.moves[k].targets
                /\ \A c \in 1..Len(state.moves[k].claims) :
                      /\ result[1].moves[k].claims[c].evidence
                            = state.moves[k].claims[c].evidence
                      /\ result[1].moves[k].claims[c].assumptions
                            = state.moves[k].claims[c].assumptions
    /\ pc \in {"serialized", "deserialized"} =>
          /\ out_files["to_dict"].total_moves = Len(state.moves)
          /\ out_files["to_dict"].total_claims =
                SumSeq([k \in 1..Len(state.moves) |-> Len(state.moves[k].claims)])

\* C26 witness: a state of two Moves was read back, the first with two
\* claims (one with two pieces of evidence and two assumptions), the
\* second with two targets
C26_Witness ==
    /\ pc = "deserialized"
    /\ Len(state.moves) = 2
    /\ Len(state.moves[1].claims) = 2
    /\ Len(state.moves[1].claims[1].evidence) = 2
    /\ Len(state.moves[1].claims[1].assumptions) = 2
    /\ Len(state.moves[2].targets) = 2
    /\ state.total_input_tokens > 0

(***************************************************************************)
(* Properties of the lesson store.                                         *)
(***************************************************************************)
\* the lessons a file holds, none for a file that is not there
StoredIn(file) == IF file = NoListFile THEN <<>> ELSE file
Combined == StoredIn(bootstrap_file) \o StoredIn(lessons_file)
LineOf(lesson) == <<"- [", lesson.category, "] ", lesson.text>>

\* C27: load_lessons returns the lessons of the bootstrap seed, if there is
\* one, followed by the learned lessons, each group in stored order; after
\* save_lessons(L), load_lessons returns the bootstrap lessons followed by
\* exactly L.
C27_LoadLessonsOrder ==
    /\ mem_call.op = "load_lessons" =>
          LET b == StoredIn(bootstrap_file)
              l == StoredIn(lessons_file)
          IN /\ Len(result[1]) = Len(b) + Len(l)
             /\ \A k \in 1..Len(b) : result[1][k] = b[k]
             /\ \A k \in 1..Len(l) : result[1][Len(b) + k] = l[k]
    /\ mem_call.op = "save" =>
          load_lessons(bootstrap_file, lessons_file)
             = StoredIn(bootstrap_file) \o mem_call.saved

\* C27 witness: a load from a seed of two lessons and three learned lessons
C27_Witness ==
    /\ mem_call.op = "load_lessons"
    /\ Len(StoredIn(bootstrap_file)) = 2
    /\ Len(StoredIn(lessons_file)) = 3
    /\ Len(result[1]) = 5

\* C28: load_context returns the empty string for an empty combined
\* sequence of bootstrap and learned lessons, and otherwise exactly one line
\* for each of the last min(20, length) lessons of that sequence, the line
\* holding the category tag and the text of the lesson; with 20 or more
\* learned lessons no bootstrap lesson has a line.
C28_ContextIsTail ==
    mem_call.op = "load_context" =>
       LET n == Len(Combined)
           m == Min(20, n)
           lines == result[1]
       IN IF n = 0 THEN lines = <<>>
          ELSE /\ Len(lines) = m
               /\ \A k \in (n - m + 1)..n :
                     Cardinality({j \in 1..Len(lines) :
                                     lines[j] = LineOf(Combined[k])}) = 1
               /\ Len(StoredIn(lessons_file)) >= 20 =>
                     \A j \in 1..Len(lines), k \in 1..Len(StoredIn(bootstrap_file)) :
                        lines[j] # LineOf(bootstrap_file[k])

\* C28 witness: the context of a seed of two lessons and 21 learned lessons
C28_Witness ==
    /\ mem_call.op = "load_context"
    /\ Len(StoredIn(bootstrap_file)) = 2
    /\ Len(StoredIn(lessons_file)) = 21
    /\ Len(result[1]) = 20

\* C29: the lines of the context are ordered most-recent-first: the last
\* lesson of the combined sequence is the first line, the one before it the
\* second line, and so on through the slice.
C29_MostRecentFirst ==
    mem_call.op = "load_context" =>
       \A j \in 1..Len(result[1]) :
          result[1][j] = LineOf(Combined[Len(Combined) - j + 1])

\* C30: a missing lessons, forecasts or performance file reads as an empty
\* collection, without error: with no file in the memory root load_lessons
\* and load_forecasts return an empty list and load_performance an empty
\* mapping, and add_forecast, resolve_forecast and update_panel_performance
\* on a missing file raise nothing and leave what they leave on an empty
\* collection.
C30_MissingFileIsEmpty ==
    /\ mem_call.exc = Exc("")
    /\ (mem_call.op = "load_lessons" /\ bootstrap_file = NoListFile
          /\ lessons_file = NoListFile) => result = << <<>> >>
    /\ (mem_call.op = "load_forecasts" /\ forecasts_file = NoListFile)
          => result = << <<>> >>
    /\ (mem_call.op = "load_performance" /\ performance_file = NoDictFile)
          => result = << <<>> >>
    /\ (mem_call.op = "add" /\ mem_call.forecasts_before = NoListFile) =>
          /\ Len(forecasts_file) = 1
          /\ forecasts_file[1].id = mem_call.id
          /\ \E forecast \in NewForecasts :
                forecasts_file = add_forecast(<<>>, forecast)
    /\ (mem_call.op = "resolve" /\ mem_call.forecasts_before = NoListFile) =>
          /\ forecasts_file = <<>>
          /\ forecasts_file = resolve_forecast(<<>>, mem_call.id, mem_call.outcome)
    /\ (mem_call.op = "perf" /\ mem_call.perf_before = NoDictFile) =>
          /\ performance_file = update_panel_performance(<<>>, state)
          /\ DOMAIN performance_file \subseteq AgentsOf(state)

\* C30 witness: in a memory root that had no file, a forecast was added, a
\* debate of two experts was recorded, and load_lessons returned no lesson
C30_Witness ==
    /\ mem_call.op = "load_lessons"
    /\ result = << <<>> >>
    /\ lessons_file = NoListFile /\ bootstrap_file = NoListFile
    /\ forecasts_file # NoListFile /\ Len(forecasts_file) = 1
    /\ performance_file # NoDictFile
    /\ Cardinality(DOMAIN performance_file) = 2

(***************************************************************************)
(* Properties of the forecast report.                                      *)
(***************************************************************************)
\* the stored forecasts that are resolved, and those that are not, in store
\* order
StoredResolved == LET r(f) == f.resolved IN SelectSeq(forecasts_file, r)
StoredPending == LET p(f) == ~f.resolved IN SelectSeq(forecasts_file, p)

\* C31: check_forecasts returns the sentinel "No forecasts recorded." for an
\* empty collection; otherwise it returns a report in which every stored
\* forecast has exactly one line, in the Resolved section with its own
\* Brier score if it is resolved and in the Pending section with its
\* deadline if it is not, and the reported average is the mean of the Brier
\* scores of the resolved forecasts (to the four decimals of the report).
C31_ForecastReport ==
    mem_call.op = "check" =>
       IF forecasts_file = <<>>
       THEN result # <<>> /\ result[1].text = "No forecasts recorded."
       ELSE /\ mem_call.exc = Exc("")
            /\ result # <<>>
            /\ LET lines(section) == IF section = <<>> THEN <<>> ELSE section[1].lines
                   res == lines(result[1].resolved)
                   pend == lines(result[1].pending)
                   n == Len(StoredResolved)
               IN /\ Len(res) = n
                  /\ Len(pend) = Len(StoredPending)
                  /\ \A k \in 1..n :
                        /\ StoredResolved[k].brier_score # <<>>
                        /\ res[k].score = 100 * StoredResolved[k].brier_score[1]
                        /\ res[k].text = StoredResolved[k].text
                  /\ \A k \in 1..Len(pend) :
                        /\ pend[k].text = StoredPending[k].text
                        /\ pend[k].deadline = StoredPending[k].deadline
                  /\ n > 0 =>
                        LET total == SumSeq([k \in 1..n |->
                                              100 * StoredResolved[k].brier_score[1]])
                            shown == result[1].resolved[1].average
                        IN /\ 2 * (shown * n - total) <= n
                           /\ 2 * (total - shown * n) <= n

(***************************************************************************)
(* Properties of the validation.                                           *)
(***************************************************************************)
\* the agent references of the spec: round index and position
References ==
    UNION {{<<r, k>> : k \in 1..Len(self.spec.rounds[r].agents)} :
              r \in 1..Len(self.spec.rounds)}
RefId(ref) == self.spec.rounds[ref[1]].agents[ref[2]]
ExpertIds == {self.panel.experts[k].id : k \in 1..Len(self.panel.experts)}
UnknownRef(ref) == RefId(ref) \notin ExpertIds \cup {"synthesizer"}

\* C32: validate_spec_against_panel returns exactly one warning for each
\* occurrence, in any round, of an agent id that is neither an expert id of
\* the Panel nor "synthesizer", the warning naming that id; it returns the
\* empty list when every reference resolves, and no warning names
\* "synthesizer".
C32_OneWarningPerUnknownReference ==
    pc = "start" =>
       LET warnings == result[1]
           named(id) == {k \in 1..Len(warnings) : warnings[k].agent_id = id}
           unknown(id) == {ref \in References : UnknownRef(ref) /\ RefId(ref) = id}
       IN /\ Len(warnings) = Cardinality({ref \in References : UnknownRef(ref)})
          /\ \A ref \in References :
                Cardinality(named(RefId(ref))) = Cardinality(unknown(RefId(ref)))
          /\ named("synthesizer") = {}
          /\ (\A ref \in References : ~UnknownRef(ref)) => warnings = <<>>

\* C32 witness: the validation returned three warnings, all naming "ghost",
\* for a spec that refers to "ghost" twice in one round and once in the next
C32_Witness ==
    /\ pc = "start"
    /\ Len(result[1]) = 3
    /\ \A k \in 1..3 : result[1][k].agent_id = "ghost"
    /\ Len(self.spec.rounds) = 2

(***************************************************************************)
(* Properties of the run and the memory root.                              *)
(***************************************************************************)
\* C33: with memory disabled (use_memory false) run() performs no memory
\* operation: the memory context handed to every turn is the empty string,
\* and no step of the run changes the lessons, forecasts or performance
\* collection (nor the bootstrap seed).
C33_NoMemoryOperation ==
    [][(~self.use_memory) =>
          (/\ memory_files' = memory_files
           /\ forecasts_file' = forecasts_file
           /\ memory_context' = <<>>
           /\ \A k \in 1..Len(calls') : calls'[k].memory_context = <<>>)]_vars

\* C33 witness: a run without memory has returned after two calls of the
\* capability, from a memory root that holds a lesson
C33_Witness ==
    /\ pc = "returned"
    /\ ~self.use_memory
    /\ lessons_file = <<L0>>
    /\ Len(calls) >= 2
    /\ \A k \in 1..Len(calls) : calls[k].memory_context = <<>>

\* the resolvable agent references, in the order of the rounds and of
\* round.agents
RECURSIVE ResolvableRefs(_)
ResolvableRefs(r) ==
    IF r > Len(Rounds) THEN <<>>
    ELSE SelectSeq(Rounds[r].agents, Resolves) \o ResolvableRefs(r + 1)

\* C34: progress.  For every finite DebateSpec, when each call of the
\* capability returns or raises, run() reaches finalisation: finished_at
\* is set with the capability invoked exactly once per resolvable agent
\* reference, in order, whatever turn failed, and the full state is
\* persisted (on the durable output location of the contract: unless the
\* write of an output document itself raises out of run()).
C34_Progress ==
    /\ <>(/\ state.finished_at # ""
          /\ [k \in 1..Len(calls) |-> calls[k].agent_id] = ResolvableRefs(1))
    /\ <>(pc = "raised" \/
          (/\ StateDocWritten
           /\ out_files["debate_state.json"].finished_at # ""
           /\ out_files["debate_state.json"].total_moves = Len(Moves)))
    /\ [](IsPrefix([k \in 1..Len(calls) |-> calls[k].agent_id], ResolvableRefs(1)))
    /\ [](pc \in LoopPcs => result = <<>>)

\* C34 witness: a run has returned with its state persisted, after the
\* first of two capability calls raised and the second was still made
C34_Witness ==
    /\ pc = "returned"
    /\ StateDocWritten
    /\ Len(calls) = 2
    /\ calls[1].capability = "raised"
    /\ calls[2].capability = "returned"

(***************************************************************************)
(* Properties of two runs on one memory root.                              *)
(***************************************************************************)
\* the records run p adds to a collection are not in its file
Missing(p, kind) ==
    CASE kind = "lessons" ->
            \A k \in 1..Len(lessons_file) : lessons_file[k].id # RunLessons(p)[1].id
      [] kind = "forecasts" ->
            \A k \in 1..Len(forecasts_file) : forecasts_file[k].id # RunForecast(p).id
      [] kind = "performance" ->
            RunDebate(p).moves[1].agent_id \notin DOMAIN performance_file

\* C35: two runs on one memory root are unsafe without a lock.  Each memory
\* write is a load, a merge in memory and an overwrite of the whole
\* collection, so when both runs have written a collection (lessons,
\* forecasts or performance), the records of the run that wrote first are
\* missing from the final collection exactly when the other run had loaded
\* before that write; the records of the run that wrote last are there.
C35_LostUpdate ==
    \A kind \in Collections : \A p \in Runs : \A q \in Runs \ {p} :
        (/\ mem_call[p][kind].stage = "saved"
         /\ mem_call[q][kind].stage = "saved"
         /\ mem_call[p][kind].save_no < mem_call[q][kind].save_no)
        => /\ ~Missing(q, kind)
           /\ Missing(p, kind) <=>
                 (mem_call[q][kind].load_no < mem_call[p][kind].save_no)

\* C35 witness: both runs have merged their lessons, added their forecast
\* and updated the performance, and the lesson, the forecast and the
\* performance record of run 1 are missing from the three collections
C35_Witness ==
    /\ \A kind \in Collections : \A p \in Runs : mem_call[p][kind].stage = "saved"
    /\ \A kind \in Collections : Missing(1, kind) /\ ~Missing(2, kind)

\* C36: the memory context is read once, before the first turn, and the
\* same string is handed to every turn of the run: it is the context of the
\* lessons stored when the run started, no step after the load changes it,
\* and the lessons file changes only when every turn of the run is over, so
\* the lessons extracted from a debate reach no turn of the run that
\* produced them.
C36_ContextReadOnce ==
    /\ [](\A k \in 1..Len(calls) : calls[k].memory_context = memory_context)
    /\ [][(pc # "start") => (memory_context' = memory_context)]_vars
    /\ []((pc \in {"turn", "called"} /\ self.use_memory) =>
             memory_context = load_context(bootstrap_file, lessons_file))
    /\ [][(lessons_file' # lessons_file) =>
             (/\ pc = "extract"
              /\ calls' = calls
              /\ Len(calls) = NumResolvable)]_vars
    /\ [][(Len(calls') > Len(calls)) => (pc = "turn" /\ pc' = "called")]_vars

\* C36 witness: a run with memory has returned after two turns that were
\* both handed the one line of the lesson stored before the run, and the
\* lessons file now holds a second lesson, extracted from this run
C36_Witness ==
    /\ pc = "returned"
    /\ self.use_memory
    /\ Len(calls) = 2
    /\ \A k \in 1..2 : calls[k].memory_context = <<ContextLine(L0)>>
    /\ Len(lessons_file) = 2
    /\ lessons_file[1] = L0

(***************************************************************************)
(* Properties of the forecast lifecycle.                                   *)
(***************************************************************************)
\* C37: in every forecast store reached from the empty store by add_forecast
\* of unresolved forecasts (resolved False, no outcome) and resolve_forecast
\* calls, a forecast is resolved if and only if its outcome is set; so every
\* resolved forecast has a Brier score, and check_forecasts raises nothing
\* and returns a report.
C37_ResolvedIffOutcome ==
    /\ \A k \in 1..Len(forecasts_file) :
          LET f == forecasts_file[k]
          IN /\ f.resolved <=> (f.outcome # <<>>)
             /\ f.resolved => (brier_score(f) # <<>> /\ f.brier_score # <<>>)
    /\ mem_call.op = "check" => (mem_call.exc = Exc("") /\ result # <<>>)

\* C37 witness: check_forecasts has reported a store of three forecasts, two
\* of them resolved, with outcomes true and false, and one pending
C37_Witness ==
    /\ mem_call.op = "check"
    /\ result # <<>>
    /\ Len(forecasts_file) = 3
    /\ \E i, j, k \in 1..3 :
          /\ forecasts_file[i].outcome = <<TRUE>>
          /\ forecasts_file[j].outcome = <<FALSE>>
          /\ ~forecasts_file[k].resolved
    /\ result[1].resolved # <<>> /\ result[1].resolved[1].count = 2
    /\ result[1].pending # <<>> /\ result[1].pending[1].count = 1

ResolvedIds(file) == {file[k].id : k \in {j \in 1..Len(file) : file[j].resolved}}

\* C38: the forecast lifecycle is monotonic: over every add_forecast and
\* resolve_forecast call no forecast leaves the store (each position keeps
\* its forecast's id, text and probability, and the number of forecasts
\* never decreases), no resolved forecast becomes unresolved, and the set
\* of resolved ids only grows.
C38_Monotonic ==
    [][/\ Len(forecasts_file') >= Len(forecasts_file)
       /\ \A k \in 1..Len(forecasts_file) :
             /\ forecasts_file'[k].id = forecasts_file[k].id
             /\ forecasts_file'[k].text = forecasts_file[k].text
             /\ forecasts_file'[k].probability = forecasts_file[k].probability
             /\ forecasts_file[k].resolved => forecasts_file'[k].resolved
       /\ ResolvedIds(forecasts_file) \subseteq ResolvedIds(forecasts_file')]_vars

\* C38 witness: a forecast has been added to a store that holds a resolved
\* one, and a resolved forecast has been resolved again with the other
\* outcome
C38_Witness ==
    /\ mem_call.op = "resolve"
    /\ Len(forecasts_file) = MaxForecasts
    /\ \E k \in 1..Len(forecasts_file) :
          /\ mem_call.forecasts_before[k].resolved
          /\ mem_call.forecasts_before[k].outcome = <<~mem_call.outcome>>
          /\ forecasts_file[k].resolved
          /\ forecasts_file[k].outcome = <<mem_call.outcome>>
    /\ \E j, k \in 1..Len(forecasts_file) : j < k /\ forecasts_file[j].resolved

(***************************************************************************)
(* Validation against orchestration.                                       *)
(***************************************************************************)
\* the validation, run before the debate, warned about the reference the
\* loop is at: a warning names its round number and its agent id
WarnedAbout ==
    \E k \in 1..Len(result[1]) :
        /\ result[1][k].round = CurRound.number
        /\ result[1][k].agent_id = CurAgentId

\* C39: validation and orchestration agree on resolution: for every spec
\* and panel, the step run() takes at an agent reference skips it (moves to
\* the next reference with no call of the capability and no move id used)
\* if and only if validate_spec_against_panel warned about it; and the id
\* "synthesizer" always resolves to the built-in synthesizer participant,
\* also when the panel holds an expert with that id: it is never skipped
\* and is invoked in the synthesizer role.
C39_ValidationAgreesWithRun ==
    /\ [][(pc = "turn" /\ InRound) =>
            LET skipped == /\ agent_idx' = agent_idx + 1
                           /\ pc' = "turn"
                           /\ calls' = calls
                           /\ move_counter' = move_counter
                invoked == /\ pc' = "called"
                           /\ Len(calls') = Len(calls) + 1
                           /\ calls'[Len(calls')].agent_id = CurAgentId
            IN /\ skipped <=> WarnedAbout
               /\ invoked <=> ~WarnedAbout
               /\ CurAgentId = "synthesizer" =>
                     invoked /\ calls'[Len(calls')].is_synthesizer]_vars
    /\ [](self.agents["synthesizer"] =
             [expert |-> SYNTHESIZER_EXPERT, is_synthesizer |-> TRUE])
    /\ [](\A k \in 1..Len(calls) :
             calls[k].is_synthesizer <=> calls[k].agent_id = "synthesizer")

\* C39 witness: with a panel that holds an expert whose id is
\* "synthesizer", the run skipped the three references of round 1 and, in
\* round 2, invoked the synthesizer and skipped "ghost"; the validation
\* had warned about exactly those four references
C39_Witness ==
    /\ pc = "turn"
    /\ IMPOSTOR \in {self.panel.experts[k] : k \in 1..Len(self.panel.experts)}
    /\ rnd_idx = 2 /\ agent_idx = 3
    /\ Len(calls) = 1
    /\ calls[1].agent_id = "synthesizer" /\ calls[1].is_synthesizer
    /\ Len(result[1]) = 4
    /\ \A k \in 1..4 : result[1][k].agent_id \in {"ghost", "e2"}

====
